---- MODULE Spec2Model ----
(***************************************************************************)
(* Execution orchestration engine of inz-pipeline-js: the PipelineBuilder  *)
(* (configuration, validation, flush), the Sequential / Conditional /      *)
(* Parallel steps and the shared PipelineContext they mutate.              *)
(*                                                                         *)
(* One behaviour of Spec is: a caller configures a builder, then makes one *)
(* top-level call: flush(token), validateConfigurationForResult(), or a    *)
(* direct step.execute(context, token) on one of the step objects (as the  *)
(* step unit tests do).  Pipes are asynchronous: a pipe invoked by a step  *)
(* stays "running" until it settles, successfully or with an error.        *)
(***************************************************************************)
EXTENDS Integers, Sequences, FiniteSets, TLC

\* ------------------------------------------------------------------ bounds
\* the number of pipes (a null step counts as one) a builder is given
MaxPipes == 3

\* the number of pipes handed to the default validator on its own
MaxValidated == 3
\* the largest maxAttempts a retry policy or strategy is constructed with
MaxAttempts == 3
\* the number of calls made through one circuit breaker
MaxCalls == 3
\* the last tick of the clock the circuit breaker reads
MaxTime == 3
\* the number of steps attached with a configuration
MaxConfigured == 2

\* ------------------------------------------------------------ vocabulary
PipeIds == (1..MaxPipes) \X (1..MaxPipes)
NoPipe == <<0, 0>>
Conditions == {"hasOutput", "noOutput"}

\* The strings a custom validator may return, as token sequences: a string
\* that starts with "WARNING:" is the token "WARNING:" followed by its text.
ValidatorResults ==
    { <<<<"WARNING:", "w">>>>,
      <<<<"e">>>>,
      <<<<"e">>, <<"WARNING:", "w">>>> }

\* Errors are records: what was thrown, and by which pipe (NoPipe if none).
Err(kind, id) == [kind |-> kind, pipe |-> id]
CancelledError == Err("Pipeline execution was cancelled", NoPipe)
PipeFailure(id) == Err("PipeFailure", id)
NoError == Err("none", NoPipe)

VARIABLES
    context,     \* PipelineBuilder.context: "undefined" or "ctx"
    source,      \* PipelineBuilder.source: "undefined", "zero" (falsy) or "value"
    steps,       \* PipelineBuilder.steps
    validator,   \* PipelineBuilder.validator
    ctx,         \* the PipelineContext object the caller created
    aborted,     \* AbortSignal.aborted of the caller's cancellation token
    pc,          \* position of the top-level call
    call,        \* which top-level call is in progress
    idx,         \* executeInternal: index of the step being executed
    stepPromise, \* state of the promise returned by step.execute
    pipeState,   \* per pipe: new / running / fulfilled / rejected
    member,      \* per pipe: state of ParallelStep.executePipe's promise
    handled,     \* pipe ids in the order their handle() was invoked
    outcome,     \* how the top-level call settled, and with which error
    probe,       \* a pure function under test: its input and its result
    retry,       \* a RetryPolicy / RetryWithBackoffStrategy and its execute call
    breaker,     \* a CircuitBreakerStrategy and the calls made through it
    exec         \* the policy / strategy call a configured step is awaiting

vars == <<context, source, steps, validator, ctx, aborted, pc, call, idx,
          stepPromise, pipeState, member, handled, outcome, probe, retry, breaker, exec>>

\* the objects a specification does not construct
Unused == [class |-> "none"]
Others == UNCHANGED <<probe, retry, breaker, exec>>

\* Date.now() of the first tick (a timestamp is never 0)
Epoch == 1

\* --------------------------------------------------------------- context
NewContext ==
    [ input |-> "undefined",
      output |-> <<>>,
      dataRepository |-> <<>>,
      hasPipeFailure |-> FALSE,
      errors |-> <<>>,
      pipelineErrors |-> <<>>,
      continueOnFailure |-> FALSE,
      validationErrors |-> <<>>,
      validationWarnings |-> <<>>,
      isConfigurationValidated |-> FALSE,
      errorHandlingOptions |-> Unused,
      performanceMetrics |-> [ isSet |-> FALSE, isEnabled |-> FALSE,
                               correlationId |-> "undefined",
                               startTime |-> FALSE, endTime |-> FALSE,
                               pipeDurations |-> {} ] ]

\* ErrorHandlingUtils.addErrorToContext
addErrorToContext(cx, error, id) ==
    [ cx EXCEPT
        !.hasPipeFailure = TRUE,
        !.errors = Append(@, error),
        !.pipelineErrors = Append(@, [ message |-> error, exception |-> error,
                                       pipeName |-> id, attemptNumber |-> 0 ]) ]

\* ErrorHandlingUtils.handleContinueOnFailure
handleContinueOnFailure(cx, error, id) == addErrorToContext(cx, error, id)

\* ----------------------------------------------------------------- steps
\* A pipe declares the resource keys it requires and provides
\* (BasePipe.getRequiredResources / getProvidedResources, default empty).
Pipe(req, prov) == [req |-> req, prov |-> prov]
PlainPipe == Pipe(<<>>, <<>>)
PipeKinds == { PlainPipe, Pipe(<<"x">>, <<>>), Pipe(<<>>, <<"x">>) }

\* new SequentialStep(pipe, new PipeConfiguration())
SequentialStep(pipe) == [kind |-> "seq", pipes |-> <<pipe>>, condition |-> "none"]
\* new ConditionalStep(pipe, condition, new PipeConfiguration())
ConditionalStep(pipe, c) == [kind |-> "cond", pipes |-> <<pipe>>, condition |-> c]
\* new ParallelStep(pipes)
ParallelStep(k) == [kind |-> "par", pipes |-> [j \in 1..k |-> PlainPipe], condition |-> "none"]
\* a null entry of the protected steps array
NullStep == [kind |-> "null", pipes |-> <<>>, condition |-> "none"]
\* new SubPipelineStep(new SubPipeline(b => b.attachPipe(p1).attachPipe(p2)...)):
\* the pipes are those of the nested builder's Sequential steps
SubPipelineStep(pipes) == [kind |-> "sub", pipes |-> pipes, condition |-> "none"]
\* the nested pipelines a caller configures
SubPipelines ==
    { <<p>> : p \in {PlainPipe, Pipe(<<"x">>, <<>>)} }
        \cup { <<p, PlainPipe>> : p \in {PlainPipe, Pipe(<<"x">>, <<>>)} }

\* the predicate of a conditional step, evaluated on the live context
CondEval(c, cx) ==
    IF c = "hasOutput" THEN cx.output # <<>> ELSE cx.output = <<>>

\* ------------------------------------------------------- builder set-up
Idle == pc = "idle"

RECURSIVE Attached(_)
\* the number of pipes the given steps hold
Attached(sq) ==
    IF sq = <<>> THEN 0
    ELSE (IF Head(sq).kind = "null" THEN 1 ELSE Len(Head(sq).pipes)) + Attached(Tail(sq))

Room(k) == Attached(steps) + k <= MaxPipes

Frame == UNCHANGED <<aborted, pc, call, idx, stepPromise, pipeState, member,
                     handled, outcome, probe, retry, breaker, exec>>

attachContext ==
    /\ Idle /\ context = "undefined"
    /\ context' = "ctx"
    /\ UNCHANGED <<source, steps, validator, ctx>> /\ Frame

setSource(s) ==
    /\ Idle /\ source = "undefined"
    /\ source' = s
    /\ UNCHANGED <<context, steps, validator, ctx>> /\ Frame

attachPipe(pipe) ==
    /\ Idle /\ Room(1)
    /\ steps' = Append(steps, SequentialStep(pipe))
    /\ UNCHANGED <<context, source, validator, ctx>> /\ Frame

attachConditionalPipe(c) ==
    /\ Idle /\ Room(1)
    /\ steps' = Append(steps, ConditionalStep(PlainPipe, c))
    /\ UNCHANGED <<context, source, validator, ctx>> /\ Frame

attachParallelPipes(k) ==
    /\ Idle /\ Room(k)
    /\ steps' = Append(steps, ParallelStep(k))
    /\ UNCHANGED <<context, source, validator, ctx>> /\ Frame

attachSubPipeline(pipes) ==
    /\ Idle /\ Room(Len(pipes))
    /\ steps' = Append(steps, SubPipelineStep(pipes))
    /\ UNCHANGED <<context, source, validator, ctx>> /\ Frame

\* a derived builder pushing a null entry into the protected steps array
pushNullStep ==
    /\ Idle /\ Room(1)
    /\ steps' = Append(steps, NullStep)
    /\ UNCHANGED <<context, source, validator, ctx>> /\ Frame

attachValidator(results) ==
    /\ Idle /\ ~validator.attached
    /\ validator' = [attached |-> TRUE, results |-> results]
    /\ UNCHANGED <<context, source, steps, ctx>> /\ Frame

\* the caller owns the context and sets its public continueOnFailure field
setContinueOnFailure ==
    /\ Idle /\ ~ctx.continueOnFailure
    /\ ctx' = [ctx EXCEPT !.continueOnFailure = TRUE]
    /\ UNCHANGED <<context, source, steps, validator>> /\ Frame

\* the caller aborts the AbortController whose signal it passed (or will pass)
Abort ==
    /\ ~aborted
    /\ pc # "done"
    /\ aborted' = TRUE
    /\ UNCHANGED <<context, source, steps, validator, ctx, pc, call, idx,
                   stepPromise, pipeState, member, handled, outcome>>
    /\ Others

\* ------------------------------------------------------------ validation
\* String.startsWith("WARNING:") and String.substring(8) on token sequences
startsWithWarning(e) == Len(e) > 0 /\ Head(e) = "WARNING:"
\* a filter that takes every string for an error
everyString(e) == TRUE
notWarning(e) == ~startsWithWarning(e)
substring8(e) == Tail(e)

MapSeq(f(_), sq) == [n \in 1..Len(sq) |-> f(sq[n])]

RECURSIVE FlatMap(_, _)
FlatMap(f(_), sq) ==
    IF sq = <<>> THEN <<>> ELSE f(Head(sq)) \o FlatMap(f, Tail(sq))

SeqRange(sq) == {sq[n] : n \in 1..Len(sq)}

RECURSIVE Dedupe(_)
\* insertion order of a JavaScript Set built from a sequence
Dedupe(sq) ==
    IF sq = <<>> THEN <<>>
    ELSE LET front == Dedupe(SubSeq(sq, 1, Len(sq) - 1))
             last == sq[Len(sq)]
         IN IF last \in SeqRange(front) THEN front ELSE Append(front, last)

\* PipelineBuilder.extractPipesFromStep (on a non-null step)
extractPipesFromStep(step) == step.pipes

pipeReq(pipe) == pipe.req
pipeProv(pipe) == pipe.prov
requiredMessage(key) == <<"Required resource is not provided by any pipe", key>>

\* a validator that accepts a requirement only from an earlier provider
DefaultValidateInOrder(pipes) ==
    LET provided(n) == SeqRange(FlatMap(pipeProv, SubSeq(pipes, 1, n)))
        missingAt(n) == SelectSeq(pipes[n].req, LAMBDA key : key \notin provided(n))
        RECURSIVE collect(_)
        collect(n) == IF n > Len(pipes) THEN <<>> ELSE missingAt(n) \o collect(n + 1)
    IN MapSeq(requiredMessage, Dedupe(collect(1)))

\* DefaultPipelineValidator.validate
DefaultValidate(pipes) ==
    LET providedResources == SeqRange(FlatMap(pipeProv, pipes))
        allRequiredResources == Dedupe(FlatMap(pipeReq, pipes))
        missing(key) == key \notin providedResources
    IN MapSeq(requiredMessage, SelectSeq(allRequiredResources, missing))

NullIndexesOf(sq) == {i \in 1..Len(sq) : sq[i].kind = "null"}
NullIndexes == NullIndexesOf(steps)
FirstNullOf(sq) == CHOOSE i \in NullIndexesOf(sq) : \A k \in NullIndexesOf(sq) : i <= k
FirstNull == FirstNullOf(steps)

\* the strings the attached validator (or the default one) returns
validationResultsOf(v, sq) ==
    IF v.attached THEN v.results
    ELSE DefaultValidate(FlatMap(extractPipesFromStep, sq))
validationResults == validationResultsOf(validator, steps)

\* a validateConfiguration that only logs the validation errors
throwsNever(validationErrors) == FALSE

\* does validateConfiguration throw once the validator has reported?
throwsOnErrors(validationErrors) == Len(validationErrors) > 0

\* a validation that decides on the strings of this call alone
validateConfigurationOnResults(b, c) ==
    IF b.context = "undefined"
    THEN [ctx |-> c, error |-> Err("Context must be attached, call attachContext()", NoPipe)]
    ELSE IF b.source # "value"
    THEN [ctx |-> c, error |-> Err("Source must be set, call setSource()", NoPipe)]
    ELSE IF Len(b.steps) = 0
    THEN [ctx |-> c, error |-> Err("At least one step must be attached to the pipeline", NoPipe)]
    ELSE IF NullIndexesOf(b.steps) # {}
    THEN [ctx |-> c, error |-> Err("Pipeline step is null and cannot be executed",
                                   <<FirstNullOf(b.steps), 0>>)]
    ELSE LET results == validationResultsOf(b.validator, b.steps)
             cx == [c EXCEPT
                      !.validationErrors = @ \o SelectSeq(results, notWarning),
                      !.validationWarnings =
                          @ \o MapSeq(substring8, SelectSeq(results, startsWithWarning)),
                      !.isConfigurationValidated = TRUE]
         IN [ctx |-> cx,
             error |-> IF throwsOnErrors(SelectSeq(results, notWarning))
                       THEN Err("Pipeline configuration validation failed", NoPipe)
                       ELSE NoError]

\* a validation that looks at the source before the context
validateConfigurationSourceFirst(b, c) ==
    IF b.source # "value"
    THEN [ctx |-> c, error |-> Err("Source must be set, call setSource()", NoPipe)]
    ELSE IF b.context = "undefined"
    THEN [ctx |-> c, error |-> Err("Context must be attached, call attachContext()", NoPipe)]
    ELSE [ctx |-> c, error |-> NoError]

\* PipelineBuilder.validateConfiguration: the context it leaves and the
\* error it throws (NoError when it resolves)
\* (b: the builder's context, source, steps and validator; c: the context
\* object the builder holds)
validateConfigurationOf(b, c) ==
    IF b.context = "undefined"
    THEN [ctx |-> c, error |-> Err("Context must be attached, call attachContext()", NoPipe)]
    ELSE IF b.source # "value"
    THEN [ctx |-> c, error |-> Err("Source must be set, call setSource()", NoPipe)]
    ELSE IF Len(b.steps) = 0
    THEN [ctx |-> c, error |-> Err("At least one step must be attached to the pipeline", NoPipe)]
    ELSE IF NullIndexesOf(b.steps) # {}
    THEN [ctx |-> c, error |-> Err("Pipeline step is null and cannot be executed",
                                   <<FirstNullOf(b.steps), 0>>)]
    ELSE LET results == validationResultsOf(b.validator, b.steps)
             cx == [c EXCEPT
                      !.validationErrors = @ \o SelectSeq(results, notWarning),
                      !.validationWarnings =
                          @ \o MapSeq(substring8, SelectSeq(results, startsWithWarning)),
                      !.isConfigurationValidated = TRUE]
         IN [ctx |-> cx,
             error |-> IF throwsOnErrors(cx.validationErrors)
                       THEN Err("Pipeline configuration validation failed", NoPipe)
                       ELSE NoError]

\* the builder under construction
Builder == [context |-> context, source |-> source, steps |-> steps, validator |-> validator]

validateConfiguration == validateConfigurationOf(Builder, ctx)

Settled(status, error) == [status |-> status, error |-> error, errors |-> <<>>, warnings |-> <<>>]
Pending == Settled("pending", NoError)

\* PipelineBuilder.validateConfigurationForResult
validateConfigurationForResult ==
    /\ Idle
    /\ call' = "validateConfigurationForResult"
    /\ pc' = "done"
    /\ outcome' =
         IF context = "undefined"
         THEN Settled("rejected", Err("Context must be attached, call attachContext()", NoPipe))
         ELSE IF source # "value"
         THEN Settled("rejected", Err("Source must be set, call setSource()", NoPipe))
         ELSE IF Len(steps) = 0
         THEN Settled("rejected", Err("At least one step must be attached to the pipeline", NoPipe))
         ELSE IF NullIndexes # {}
         THEN Settled("rejected", Err("TypeError", <<FirstNull, 0>>))
         ELSE [ status |-> "resolved", error |-> NoError,
                errors |-> SelectSeq(validationResults, notWarning),
                warnings |-> MapSeq(substring8, SelectSeq(validationResults, startsWithWarning)) ]
    /\ UNCHANGED <<context, source, steps, validator, ctx, aborted, idx,
                   stepPromise, pipeState, member, handled>>
    /\ Others

\* -------------------------------------------------------- step execution
\* PipelineBuilder.executeInternal: metrics set-up before the loop
startMetrics(pm) ==
    LET m == IF pm.isSet THEN pm ELSE [pm EXCEPT !.isSet = TRUE, !.isEnabled = TRUE]
    IN IF m.isEnabled
       THEN [m EXCEPT !.startTime = TRUE,
                      !.correlationId = IF @ = "undefined" THEN "generated" ELSE @]
       ELSE m

\* PipelineBuilder.executeInternal: per-step duration, keyed by the step
\* (<<i, 0>> for step i of the builder, <<i, j>> for step j of the builder
\* nested in its step i)
stepDuration(pm, key) ==
    IF pm.isSet /\ pm.isEnabled THEN [pm EXCEPT !.pipeDurations = @ \cup {key}] ELSE pm

\* PipelineBuilder.executeInternal: metrics after the loop
endMetrics(pm) ==
    IF pm.isSet /\ pm.isEnabled THEN [pm EXCEPT !.endTime = TRUE] ELSE pm

\* The synchronous prefix of step.execute, up to the invocation of the
\* pipe(s): the context it leaves, the state of the returned promise, the
\* error it rejects with, and the members whose handle() it invokes.
Entered(cx, result, error, invoke) ==
    [ctx |-> cx, result |-> result, error |-> error, invoke |-> invoke]

\* ErrorHandlingUtils.checkAndHandleCancellation / handleCancellation:
\* the context after the check (the check throws iff the signal is aborted)
checkAndHandleCancellation(ab, cx, id) ==
    IF ab THEN addErrorToContext(cx, CancelledError, id) ELSE cx

\* an execute that does not look at the signal
SequentialEnterUnchecked(cx, ab, i) == Entered(cx, "pending", NoError, {1})

\* SequentialStep.execute, before the await
SequentialEnter(cx, ab, i) ==
    IF ab
    THEN Entered(checkAndHandleCancellation(ab, cx, <<i, 1>>), "rejected", CancelledError, {})
    ELSE Entered(cx, "pending", NoError, {1})

\* an execute that invokes the pipe whatever the predicate says
ConditionalEnterAlways(cx, ab, c) ==
    IF ab
    THEN Entered(cx, "rejected", CancelledError, {})
    ELSE Entered(cx, "pending", NoError, {1})

\* ConditionalStep.execute, before the await
ConditionalEnter(cx, ab, c) ==
    IF ab
    THEN Entered(cx, "rejected", CancelledError, {})
    ELSE IF CondEval(c, cx)
         THEN Entered(cx, "pending", NoError, {1})
         ELSE Entered(cx, "fulfilled", NoError, {})

\* ParallelStep.execute, before the await: every member is launched in the
\* same synchronous map() over the pipes
ParallelEnter(cx, ab, k) ==
    IF ab
    THEN Entered(cx, "rejected", CancelledError, {})
    ELSE Entered(cx, IF k = 0 THEN "fulfilled" ELSE "pending", NoError, 1..k)

\* the builder a SubPipeline holds once execute has attached the context and
\* set the source
NestedBuilder(cx, pipes) ==
    [ context |-> "ctx",
      source |-> cx.input,
      steps |-> [j \in 1..Len(pipes) |-> SequentialStep(pipes[j])],
      validator |-> [attached |-> FALSE, results |-> <<>>] ]

\* a SubPipeline that runs its builder on a copy of the context taken before
\* the parent's pipes ran
SubPipelineExecuteOnCopy(cx, ab, i, pipes) ==
    LET own == [NewContext EXCEPT !.input = cx.input,
                                  !.continueOnFailure = cx.continueOnFailure,
                                  !.performanceMetrics = cx.performanceMetrics]
        v == validateConfigurationOf(NestedBuilder(cx, pipes), own) IN
    IF v.error # NoError
    THEN Entered(v.ctx, "rejected", v.error, {})
    ELSE LET c1 == [v.ctx EXCEPT !.performanceMetrics = startMetrics(@)]
         IN IF ab
            THEN Entered(c1, "rejected", CancelledError, {})
            ELSE SequentialEnter(c1, ab, i)

\* SubPipeline.execute, up to the first await of a pipe: the nested flush
\* validates on the caller's context, then executeInternal binds the input,
\* starts the metrics and enters its first step
SubPipelineExecute(cx, ab, i, pipes) ==
    LET v == validateConfigurationOf(NestedBuilder(cx, pipes), cx) IN
    IF v.error # NoError
    THEN Entered(v.ctx, "rejected", v.error, {})
    ELSE LET c1 == [v.ctx EXCEPT !.input = cx.input,
                                 !.performanceMetrics = startMetrics(@)]
         IN IF ab
            THEN Entered(c1, "rejected", CancelledError, {})
            ELSE SequentialEnter(c1, ab, i)

\* SubPipelineStep.execute, before the await
SubPipelineEnter(cx, ab, i, pipes) ==
    IF ab
    THEN Entered(cx, "rejected", CancelledError, {})
    ELSE SubPipelineExecute(cx, ab, i, pipes)

Enter(step, i, cx, ab) ==
    IF step.kind = "seq" THEN SequentialEnter(cx, ab, i)
    ELSE IF step.kind = "cond" THEN ConditionalEnter(cx, ab, step.condition)
    ELSE IF step.kind = "sub" THEN SubPipelineEnter(cx, ab, i, step.pipes)
    ELSE ParallelEnter(cx, ab, Len(step.pipes))

\* The catch block around the pipe invocation: the context it leaves and
\* whether it re-throws.
Caught(cx, rethrow) == [ctx |-> cx, rethrow |-> rethrow]

\* a catch block that swallows the error without recording it
SequentialCatchUnrecorded(cx, error, id) ==
    IF cx.continueOnFailure
    THEN Caught(cx, FALSE)
    ELSE Caught(cx, TRUE)

\* SequentialStep.execute, catch (error)
SequentialCatch(cx, error, id) ==
    IF cx.continueOnFailure
    THEN Caught(handleContinueOnFailure(cx, error, id), FALSE)
    ELSE Caught(cx, TRUE)

\* the inline recording of ConditionalStep.execute and ParallelStep.executePipe
pushError(cx, error, id) ==
    [ cx EXCEPT
        !.hasPipeFailure = TRUE,
        !.errors = Append(@, error),
        !.pipelineErrors = Append(@, [ message |-> error, exception |-> error,
                                       pipeName |-> id, attemptNumber |-> 0 ]) ]

\* ConditionalStep.execute, catch (error)
ConditionalCatch(cx, error, id) ==
    IF cx.continueOnFailure
    THEN Caught(pushError(cx, error, id), FALSE)
    ELSE Caught(cx, TRUE)

\* a catch block that records the error and re-throws it all the same
ParallelCatchRethrows(cx, error, id) ==
    IF cx.continueOnFailure
    THEN Caught(pushError(cx, error, id), TRUE)
    ELSE Caught(cx, TRUE)

\* ParallelStep.executePipe, catch (error)
ParallelCatch(cx, error, id) ==
    IF cx.continueOnFailure
    THEN Caught(pushError(cx, error, id), FALSE)
    ELSE Caught(cx, TRUE)

Catch(kind, cx, error, id) ==
    IF kind \in {"seq", "sub"} THEN SequentialCatch(cx, error, id)
    ELSE IF kind = "cond" THEN ConditionalCatch(cx, error, id)
    ELSE ParallelCatch(cx, error, id)

\* The nested executeInternal of a SubPipeline once the pipe of its step j
\* has settled (c: what the catch block of that step left): the loop records
\* the step's duration and goes on to step j + 1, or ends.
SubPipelineResume(c, ab, i, j, pipes, error) ==
    IF c.rethrow
    THEN Entered(c.ctx, "rejected", error, {})
    ELSE LET c1 == [c.ctx EXCEPT !.performanceMetrics = stepDuration(@, <<i, j>>)] IN
         IF j < Len(pipes)
         THEN IF ab
              THEN Entered(c1, "rejected", CancelledError, {})
              ELSE [SequentialEnter(c1, ab, i) EXCEPT !.invoke = {j + 1}]
         ELSE Entered([c1 EXCEPT !.performanceMetrics = endMetrics(@)],
                      "fulfilled", NoError, {})

\* Promise.all replaced by a combinator that resolves with the first member
PromiseAny(states) ==
    IF \E j \in DOMAIN states : states[j] = "fulfilled" THEN "fulfilled"
    ELSE IF \A j \in DOMAIN states : states[j] = "rejected" THEN "rejected"
    ELSE "pending"

\* Promise.all over the members' promises
PromiseAll(states) ==
    IF \E j \in DOMAIN states : states[j] = "rejected" THEN "rejected"
    ELSE IF \A j \in DOMAIN states : states[j] = "fulfilled" THEN "fulfilled"
    ELSE "pending"

\* the effect of a pipe's handle() that completes: it mutates the output
\* (the output is the sequence of the mutations applied to it)
handle(cx, id) == [cx EXCEPT !.output = Append(@, id)]

\* ---------------------------------------------------------------- flush
\* a loop that swallows the rejection of step.execute
awaitAlwaysReturns(result) == result \in {"fulfilled", "rejected"}

\* PipelineBuilder.executeInternal: 'await step.execute(...)' returns
\* normally only when the step's promise is fulfilled
awaitReturns(result) == result = "fulfilled"

\* PipelineBuilder.executeInternal: the loop visits the steps in array order
nextStep(i) == i + 1

\* PipelineBuilder.flush: validateConfiguration, then the part of
\* executeInternal that precedes the loop
flush ==
    /\ Idle
    /\ call' = "flush"
    /\ LET v == validateConfiguration IN
        IF v.error # NoError
        THEN /\ ctx' = v.ctx
             /\ pc' = "done"
             /\ outcome' = Settled("rejected", v.error)
             /\ idx' = idx
        ELSE /\ ctx' = [v.ctx EXCEPT !.input = source,
                                      !.performanceMetrics = startMetrics(@)]
             /\ pc' = "loop"
             /\ outcome' = Pending
             /\ idx' = 1
    /\ UNCHANGED <<context, source, steps, validator, aborted, stepPromise,
                   pipeState, member, handled>>
    /\ Others

\* The caller of a step: what happens once step.execute's promise has the
\* given state (the builder's loop for flush, the test for a direct call).
Continue(cx, result, error) ==
    IF result = "pending"
    THEN /\ ctx' = cx /\ pc' = "await" /\ outcome' = outcome /\ idx' = idx
    ELSE IF call = "flush" /\ awaitReturns(result)
    THEN /\ ctx' = [cx EXCEPT !.performanceMetrics = stepDuration(@, <<idx, 0>>)]
         /\ pc' = "loop" /\ outcome' = outcome /\ idx' = nextStep(idx)
    ELSE /\ ctx' = cx /\ pc' = "done" /\ idx' = idx
         /\ outcome' = Settled(IF result = "fulfilled" THEN "resolved" ELSE "rejected", error)

\* the members of step i in the given set, in ascending order
RECURSIVE InOrder(_, _)
InOrder(i, members) ==
    IF members = {} THEN <<>>
    ELSE LET least == CHOOSE j \in members : \A k \in members : j <= k
         IN <<<<i, least>>>> \o InOrder(i, members \ {least})

Launch(i, e) ==
    /\ stepPromise' = e.result
    /\ pipeState' = [id \in PipeIds |->
                       IF id[1] = i /\ id[2] \in e.invoke THEN "running" ELSE pipeState[id]]
    /\ member' = [id \in PipeIds |->
                    IF id[1] = i /\ id[2] \in e.invoke THEN "pending" ELSE member[id]]
    /\ handled' = handled \o InOrder(i, e.invoke)

\* PipelineBuilder.executeInternal: one iteration of the loop, up to the
\* await of step.execute
beginStep ==
    /\ pc = "loop" /\ idx <= Len(steps)
    /\ call' = call
    /\ IF aborted
       THEN /\ ctx' = ctx /\ pc' = "done" /\ idx' = idx
            /\ outcome' = Settled("rejected", CancelledError)
            /\ UNCHANGED <<stepPromise, pipeState, member, handled>>
       ELSE LET e == Enter(steps[idx], idx, ctx, aborted) IN
            /\ Launch(idx, e)
            /\ Continue(e.ctx, e.result, e.error)
    /\ UNCHANGED <<context, source, steps, validator, aborted>>
    /\ Others

\* PipelineBuilder.executeInternal: after the loop
finish ==
    /\ pc = "loop" /\ idx > Len(steps)
    /\ ctx' = [ctx EXCEPT !.performanceMetrics = endMetrics(@)]
    /\ pc' = "done"
    /\ outcome' = Settled("resolved", NoError)
    /\ UNCHANGED <<context, source, steps, validator, aborted, call, idx,
                   stepPromise, pipeState, member, handled>>
    /\ Others

\* A caller executes one of the step objects directly, as the step unit
\* tests do.  step.execute reads nothing of the builder, so the call is
\* explored from the builders that hold only steps.
executeStep(i) ==
    /\ Idle
    /\ context = "undefined" /\ source = "undefined" /\ ~validator.attached
    /\ steps[i].kind # "null"
    /\ call' = "step"
    /\ LET e == Enter(steps[i], i, ctx, aborted) IN
         /\ Launch(i, e)
         /\ idx' = i
         /\ ctx' = e.ctx
         /\ pc' = IF e.result = "pending" THEN "await" ELSE "done"
         /\ outcome' = IF e.result = "pending" THEN Pending
                        ELSE Settled(IF e.result = "fulfilled" THEN "resolved" ELSE "rejected", e.error)
    /\ UNCHANGED <<context, source, steps, validator, aborted>>
    /\ Others

\* A running pipe settles: its handle() completes (ok) or throws.  The catch
\* block of its step runs, the step's promise may settle, and the caller of
\* the step resumes, all in the same turn of the event loop.
settlePipe(id, ok) ==
    /\ pipeState[id] = "running"
    /\ LET step == steps[id[1]]
           error == PipeFailure(id)
           c == IF ok THEN Caught(handle(ctx, id), FALSE)
                ELSE Catch(step.kind, ctx, error, id)
           m == [member EXCEPT ![id] = IF c.rethrow THEN "rejected" ELSE "fulfilled"]
           awaited == stepPromise = "pending" /\ pc = "await" /\ id[1] = idx
           r == IF step.kind = "sub"
                THEN SubPipelineResume(c, aborted, id[1], id[2], step.pipes, error)
                ELSE Entered(c.ctx,
                             PromiseAll([j \in 1..Len(step.pipes) |-> m[<<id[1], j>>]]),
                             error, {})
           next == IF awaited THEN {<<id[1], j>> : j \in r.invoke} ELSE {}
       IN /\ pipeState' = [p \in PipeIds |->
                             IF p = id THEN (IF ok THEN "fulfilled" ELSE "rejected")
                             ELSE IF p \in next THEN "running" ELSE pipeState[p]]
          /\ member' = [p \in PipeIds |-> IF p \in next THEN "pending" ELSE m[p]]
          /\ handled' = handled \o (IF awaited THEN InOrder(id[1], r.invoke) ELSE <<>>)
          /\ call' = call
          /\ IF awaited
             THEN /\ stepPromise' = r.result
                  /\ Continue(r.ctx, r.result, r.error)
             ELSE /\ ctx' = c.ctx
                  /\ UNCHANGED <<stepPromise, pc, outcome, idx>>
    /\ UNCHANGED <<context, source, steps, validator, aborted>>
    /\ Others

\* A caller calls validateConfiguration() itself and catches what it throws;
\* the builder stays usable.  Explored for the first validation of a context.
callValidateConfiguration ==
    /\ Idle /\ ~ctx.isConfigurationValidated
    /\ context # "undefined"
    /\ ctx' = validateConfiguration.ctx
    /\ UNCHANGED <<context, source, steps, validator>> /\ Frame

\* A caller that has validated the builder itself sets the input of the
\* context, as the step tests do, and runs one of the sub-pipeline steps on
\* that context: SubPipeline.execute attaches the context to its own builder
\* and flushes it.
executeSubPipeline(i) ==
    /\ Idle /\ context # "undefined" /\ ctx.isConfigurationValidated
    /\ steps[i].kind = "sub"
    /\ call' = "step"
    /\ LET e == Enter(steps[i], i, [ctx EXCEPT !.input = source], aborted) IN
         /\ Launch(i, e)
         /\ idx' = i
         /\ ctx' = e.ctx
         /\ pc' = IF e.result = "pending" THEN "await" ELSE "done"
         /\ outcome' = IF e.result = "pending" THEN Pending
                        ELSE Settled(IF e.result = "fulfilled" THEN "resolved" ELSE "rejected", e.error)
    /\ UNCHANGED <<context, source, steps, validator, aborted>>
    /\ Others

\* ------------------------------------------------------- specification
\* No policy or strategy call in progress: the clock, the number of flushes
\* made, and the execute calls made on policies and strategies so far
NoExec ==
    [ now |-> Epoch, runs |-> 0, phase |-> "none", via |-> "none",
      call |-> Unused, primaryError |-> NoError, calls |-> <<>> ]

\* a new PipelineBuilder and a new context, no call made yet
NoBuilder ==
    /\ context = "undefined"
    /\ source = "undefined"
    /\ steps = <<>>
    /\ validator = [attached |-> FALSE, results |-> <<>>]
    /\ ctx = NewContext
    /\ aborted = FALSE
    /\ pc = "idle"
    /\ call = "none"
    /\ idx = 0
    /\ stepPromise = "none"
    /\ pipeState = [id \in PipeIds |-> "new"]
    /\ member = [id \in PipeIds |-> "none"]
    /\ handled = <<>>
    /\ outcome = Pending
    /\ exec = NoExec

Init ==
    /\ NoBuilder
    /\ probe = Unused
    /\ retry = Unused
    /\ breaker = Unused

Next ==
    \/ attachContext
    \/ \E s \in {"zero", "value"} : setSource(s)
    \/ \E pipe \in PipeKinds : attachPipe(pipe)
    \/ \E c \in Conditions : attachConditionalPipe(c)
    \/ \E k \in 1..MaxPipes : attachParallelPipes(k)
    \/ pushNullStep
    \/ \E results \in ValidatorResults : attachValidator(results)
    \/ setContinueOnFailure
    \/ Abort
    \/ validateConfigurationForResult
    \/ flush
    \/ beginStep
    \/ finish
    \/ \E i \in 1..Len(steps) : executeStep(i)
    \/ \E id \in PipeIds : \E ok \in BOOLEAN : settlePipe(id, ok)

Spec == Init /\ [][Next]_vars

\* The builders of sequential and parallel steps under a scheduler that
\* runs every continuation that is ready, with pipes that all settle: the
\* loop of executeInternal takes its next step, and a pipe that was invoked
\* settles.
FairNext ==
    \/ attachContext
    \/ setSource("value")
    \/ attachPipe(PlainPipe)
    \/ \E k \in 2..MaxPipes : attachParallelPipes(k)
    \/ setContinueOnFailure
    \/ Abort
    \/ flush
    \/ beginStep
    \/ finish
    \/ \E id \in PipeIds : \E ok \in BOOLEAN : settlePipe(id, ok)

Scheduled ==
    \/ beginStep
    \/ finish
    \/ \E id \in PipeIds : \E ok \in BOOLEAN : settlePipe(id, ok)

FairSpec == Init /\ [][FairNext]_vars /\ WF_vars(Scheduled)

\* The default validator on its own: validate() is called once on a list of
\* pipes, each declaring the resource keys it requires and provides.
ResourceLists == { <<>>, <<"x">>, <<"y">>, <<"x", "y">>, <<"x", "x">> }
DeclaringPipes == { Pipe(req, prov) : req \in ResourceLists, prov \in {<<>>, <<"x">>, <<"y">>} }
PipeLists == UNION { [1..n -> DeclaringPipes] : n \in 0..MaxValidated }

ValidatorInit ==
    /\ NoBuilder
    /\ retry = Unused /\ breaker = Unused
    /\ probe \in { [pipes |-> pipes, called |-> FALSE, result |-> <<>>] : pipes \in PipeLists }

validate ==
    /\ ~probe.called
    /\ probe' = [probe EXCEPT !.called = TRUE, !.result = DefaultValidate(probe.pipes)]
    /\ UNCHANGED <<context, source, steps, validator, ctx, aborted, pc, call, idx,
                   stepPromise, pipeState, member, handled, outcome, retry, breaker,
                   exec>>

ValidatorNext == validate

ValidatorSpec == ValidatorInit /\ [][ValidatorNext]_vars

\* ---------------------------------------------------------------- retry
\* the pipe a policy or strategy is executed on
ThePipe == <<1, 1>>
\* the errors a pipe throws, and the optional predicates over them
NonRetryable == Err("NonRetryable", ThePipe)
PipeErrors == {PipeFailure(ThePipe), NonRetryable}
Predicates == {"undefined", "retryable"}
Holds(predicate, error) == error.kind = "PipeFailure"
DelayCancelled == Err("Pipeline execution was cancelled during retry delay", NoPipe)

DefaultMaxAttempts == 3
DefaultDelay == 1000
DefaultMaxDelay == 60000

\* a constructor that falls back to the default number of attempts
RetryPolicyDefaulting(maxAttempts, delay, maxDelay, useExponentialBackoff, shouldRetry) ==
    [ class |-> "RetryPolicy",
      given |-> [maxAttempts |-> maxAttempts, delay |-> delay, maxDelay |-> maxDelay],
      maxAttempts |-> IF maxAttempts > 0 THEN maxAttempts ELSE DefaultMaxAttempts,
      delay |-> IF delay > 0 THEN delay ELSE DefaultDelay,
      maxDelay |-> IF maxDelay > 0 THEN maxDelay ELSE DefaultMaxDelay,
      useExponentialBackoff |-> useExponentialBackoff,
      shouldRetry |-> shouldRetry ]

\* new RetryPolicy(maxAttempts, delay, maxDelay, useExponentialBackoff, shouldRetry)
RetryPolicy(maxAttempts, delay, maxDelay, useExponentialBackoff, shouldRetry) ==
    [ class |-> "RetryPolicy",
      given |-> [maxAttempts |-> maxAttempts, delay |-> delay, maxDelay |-> maxDelay],
      maxAttempts |-> IF maxAttempts > 0 THEN maxAttempts ELSE 1,
      delay |-> IF delay > 0 THEN delay ELSE DefaultDelay,
      maxDelay |-> IF maxDelay > 0 THEN maxDelay ELSE DefaultMaxDelay,
      useExponentialBackoff |-> useExponentialBackoff,
      shouldRetry |-> shouldRetry ]

\* new RetryWithBackoffStrategy(maxAttempts, initialDelay, maxDelay, shouldRetry)
RetryWithBackoffStrategy(maxAttempts, initialDelay, maxDelay, shouldRetry) ==
    [ class |-> "RetryWithBackoffStrategy",
      given |-> [maxAttempts |-> maxAttempts, delay |-> initialDelay, maxDelay |-> maxDelay],
      maxAttempts |-> IF maxAttempts > 0 THEN maxAttempts ELSE 1,
      delay |-> IF initialDelay > 0 THEN initialDelay ELSE DefaultDelay,
      maxDelay |-> IF maxDelay > 0 THEN maxDelay ELSE DefaultMaxDelay,
      useExponentialBackoff |-> TRUE,
      shouldRetry |-> shouldRetry ]

\* the position of an execute call on the object: not called yet
NotCalled ==
    [ pc |-> "new", attempts |-> 0, lastError |-> NoError, thrown |-> NoError,
      outcomes |-> <<>>, delays |-> <<>>, timer |-> "none" ]

\* ErrorHandlingUtils.addErrorToContext with a message prefix and an
\* attempt number
addErrorToContextAs(cx, error, id, messagePrefix, attemptNumber) ==
    [ cx EXCEPT
        !.hasPipeFailure = TRUE,
        !.errors = Append(@, [prefix |-> messagePrefix, error |-> error]),
        !.pipelineErrors = Append(@, [ message |-> [prefix |-> messagePrefix, error |-> error],
                                       exception |-> error,
                                       pipeName |-> id, attemptNumber |-> attemptNumber ]) ]

\* an exponential delay that is never capped
currentDelayUncapped(r, attempts) ==
    IF r.useExponentialBackoff THEN r.delay * (2 ^ (attempts - 1)) ELSE r.delay

\* RetryPolicy.execute / RetryWithBackoffStrategy.execute: the delay before
\* the next attempt
currentDelay(r, attempts) ==
    IF r.useExponentialBackoff
    THEN LET exponential == r.delay * (2 ^ (attempts - 1))
         IN IF exponential > r.maxDelay THEN r.maxDelay ELSE exponential
    ELSE r.delay

\* a predicate that is never consulted
neverRejects(r, error) == FALSE

\* 'this.shouldRetry && !this.shouldRetry(lastError)'
predicateRejects(r, error) ==
    r.shouldRetry # "undefined" /\ ~Holds(r.shouldRetry, error)

\* a loop that makes one attempt more
exhaustedLate(r, attempts) == attempts > r.maxAttempts

\* 'attempts >= this.maxAttempts'
exhausted(r, attempts) == attempts >= r.maxAttempts

exhaustedPrefix(r) ==
    IF r.class = "RetryPolicy"
    THEN <<"Pipe failed after %d attempt(s)", r.maxAttempts>>
    ELSE <<"Recovery strategy failed after %d attempt(s)", r.maxAttempts>>

\* the catch block of the retry loop, up to its next await: the object and
\* the context it leaves
retryCatch(r, cx, error) ==
    LET attempts == r.attempts + 1
        r1 == [r EXCEPT !.lastError = error, !.attempts = attempts]
    IN IF predicateRejects(r, error)
       THEN [ retry |-> [r1 EXCEPT !.pc = "rejected", !.thrown = error],
              ctx |-> addErrorToContextAs(cx, error, ThePipe,
                        <<"Pipe failed after %d attempt(s) - non-retryable exception", attempts>>,
                        attempts) ]
       ELSE IF exhausted(r, attempts)
       THEN [ retry |-> [r1 EXCEPT !.pc = "rejected", !.thrown = error],
              ctx |-> addErrorToContextAs(cx, error, ThePipe, exhaustedPrefix(r), attempts) ]
       ELSE [ retry |-> [r1 EXCEPT !.pc = "delay", !.timer = "armed",
                                   !.delays = Append(@, currentDelay(r, attempts))],
              ctx |-> cx ]

\* one iteration of the retry loop, up to its first await: the cancellation
\* check inside the try block, then the invocation of the pipe
retryAttempt(r, cx, ab) ==
    IF ab
    THEN retryCatch(r, checkAndHandleCancellation(ab, cx, ThePipe), CancelledError)
    ELSE [ retry |-> [r EXCEPT !.pc = "handle"], ctx |-> cx ]

BuilderUnchanged ==
    UNCHANGED <<context, source, steps, validator, pc, call, idx, stepPromise,
                pipeState, member, handled, outcome, exec>>

\* policy.execute(pipe, context, cancellationToken)
retryExecute ==
    /\ retry.class # "none" /\ retry.pc = "new"
    /\ LET a == retryAttempt(retry, ctx, aborted) IN
         retry' = a.retry /\ ctx' = a.ctx
    /\ UNCHANGED <<aborted, probe, breaker>> /\ BuilderUnchanged

\* the pipe's handle() completes
retryPipeSucceeds ==
    /\ retry.class # "none" /\ retry.pc = "handle"
    /\ retry' = [retry EXCEPT !.pc = "resolved", !.outcomes = Append(@, NoError)]
    /\ ctx' = handle(ctx, ThePipe)
    /\ UNCHANGED <<aborted, probe, breaker>> /\ BuilderUnchanged

\* the pipe's handle() throws
retryPipeFails(error) ==
    /\ retry.class # "none" /\ retry.pc = "handle"
    /\ LET c == retryCatch([retry EXCEPT !.outcomes = Append(@, error)], ctx, error) IN
         retry' = c.retry /\ ctx' = c.ctx
    /\ UNCHANGED <<aborted, probe, breaker>> /\ BuilderUnchanged

\* a delay that has no 'abort' listener
delayUninterrupted(r) == r

\* delayWithCancellation, the 'abort' listener: the timer is cleared and
\* the promise rejected, which execute rethrows
delayAborted(r) ==
    [r EXCEPT !.pc = "rejected", !.thrown = DelayCancelled, !.timer = "cleared"]

\* delayWithCancellation, the timer's callback: the promise is resolved
delayResolved(r) == [r EXCEPT !.timer = "fired"]

\* delayWithCancellation: the timer fires, the loop makes its next attempt
retryDelayElapsed ==
    /\ retry.class # "none" /\ retry.pc = "delay"
    /\ LET a == retryAttempt(delayResolved(retry), ctx, aborted) IN
         retry' = a.retry /\ ctx' = a.ctx
    /\ UNCHANGED <<aborted, probe, breaker>> /\ BuilderUnchanged

\* the caller aborts the signal it passed: a delay in progress is rejected
\* by its 'abort' listener and execute throws that error
retryAbort ==
    /\ retry.class # "none" /\ retry.pc \in {"new", "handle", "delay"}
    /\ ~aborted
    /\ aborted' = TRUE
    /\ retry' = IF retry.pc = "delay" THEN delayAborted(retry) ELSE retry
    /\ UNCHANGED <<ctx, probe, breaker>> /\ BuilderUnchanged

GivenAttempts == -1..MaxAttempts
GivenDelays == {0, 10}
GivenMaxDelays == {-1, 15, 50}
RetryObjects ==
    { RetryPolicy(n, d, m, e, p) :
        n \in GivenAttempts, d \in GivenDelays, m \in GivenMaxDelays,
        e \in BOOLEAN, p \in Predicates }
    \cup
    { RetryWithBackoffStrategy(n, d, m, p) :
        n \in GivenAttempts, d \in GivenDelays, m \in GivenMaxDelays, p \in Predicates }

RetryInit ==
    /\ NoBuilder
    /\ probe = Unused
    /\ breaker = Unused
    /\ retry \in { object @@ NotCalled : object \in RetryObjects }

\* ------------------------------------------------------ circuit breaker
DefaultFailureThreshold == 5
DefaultTimeout == 60000
\* new CircuitBreakerStrategy(failureThreshold, timeout, shouldHandle);
\* lastFailureTime = 0 stands for undefined (both are falsy)
CircuitBreakerStrategy(failureThreshold, timeout, shouldHandle) ==
    [ class |-> "CircuitBreakerStrategy",
      given |-> [failureThreshold |-> failureThreshold, timeout |-> timeout],
      failureThreshold |-> IF failureThreshold > 0 THEN failureThreshold
                           ELSE DefaultFailureThreshold,
      timeout |-> IF timeout > 0 THEN timeout ELSE DefaultTimeout,
      shouldHandle |-> shouldHandle,
      state |-> "Closed",
      failureCount |-> 0,
      lastFailureTime |-> 0 ]

\* the clock, and the execute calls made on the object so far
NoCalls == [ now |-> Epoch, calls |-> <<>> ]
\* a call: the circuit state it found, whether it invoked the pipe, when it
\* was made and how it settled
Call(saw, status, invoked, at, error) ==
    [saw |-> saw, status |-> status, invoked |-> invoked, at |-> at, error |-> error]
CircuitOpen == Err("Circuit breaker strategy is OPEN", ThePipe)

\* the recording done inline by CircuitBreakerStrategy.execute
breakerRecord(cx, prefix, error) ==
    [ cx EXCEPT
        !.hasPipeFailure = TRUE,
        !.errors = Append(@, error),
        !.pipelineErrors = Append(@, [ message |-> [prefix |-> prefix, error |-> error],
                                       exception |-> error,
                                       pipeName |-> NoPipe, attemptNumber |-> 0 ]) ]

\* 'this.lastFailureTime && (Date.now() - this.lastFailureTime) < this.timeout'
stillOpen(b) == b.lastFailureTime # 0 /\ (b.now - b.lastFailureTime) < b.timeout

\* a reset that closes the circuit and keeps the count
resetStateOnly(b) == [b EXCEPT !.state = "Closed"]

\* CircuitBreakerStrategy.resetCircuit
resetCircuit(b) ==
    [b EXCEPT !.state = "Closed", !.failureCount = 0, !.lastFailureTime = 0]

\* CircuitBreakerStrategy.execute, up to the await of the pipe
breakerExecute ==
    /\ breaker.class # "none" /\ Len(breaker.calls) < MaxCalls
    /\ IF aborted
       THEN /\ breaker' = [breaker EXCEPT !.calls =
                              Append(@, Call(breaker.state, "rejected", FALSE, breaker.now, CancelledError))]
            /\ ctx' = ctx
       ELSE IF breaker.state = "Open" /\ stillOpen(breaker)
       THEN /\ breaker' = [breaker EXCEPT !.calls =
                              Append(@, Call(breaker.state, "rejected", FALSE, breaker.now, CircuitOpen))]
            /\ ctx' = breakerRecord(ctx, "Circuit breaker strategy OPEN", CircuitOpen)
       ELSE /\ breaker' = [breaker EXCEPT
                              !.state = IF @ = "Open" THEN "HalfOpen" ELSE @,
                              !.calls = Append(@, Call(breaker.state, "running", TRUE, breaker.now, NoError))]
            /\ ctx' = ctx
    /\ UNCHANGED <<aborted, probe, retry>> /\ BuilderUnchanged

\* a breaker that forgets its failures at every success
resetOnSuccess(b) == resetCircuit(b)

\* 'if (this.state === CircuitState.HalfOpen) { this.resetCircuit(); }'
resetIfHalfOpen(b) == IF b.state = "HalfOpen" THEN resetCircuit(b) ELSE b

\* the pipe invoked by call c completes
breakerPipeSucceeds(c) ==
    /\ breaker.class # "none" /\ c \in DOMAIN breaker.calls
    /\ breaker.calls[c].status = "running"
    /\ breaker' = [resetIfHalfOpen(breaker) EXCEPT !.calls[c].status = "resolved"]
    /\ ctx' = handle(ctx, ThePipe)
    /\ UNCHANGED <<aborted, probe, retry>> /\ BuilderUnchanged

\* a failure that does not open the circuit at the threshold
countFailureOnly(b) ==
    [b EXCEPT !.failureCount = @ + 1, !.lastFailureTime = b.now]

\* CircuitBreakerStrategy.execute: a failure that counts
countFailure(b) ==
    [b EXCEPT !.failureCount = @ + 1,
              !.lastFailureTime = b.now,
              !.state = IF b.failureCount + 1 >= b.failureThreshold THEN "Open" ELSE @]

\* a breaker that counts every error
neverExcluded(b, error) == FALSE

\* 'this.shouldHandle && !this.shouldHandle(typedError)'
excluded(b, error) == b.shouldHandle # "undefined" /\ ~Holds(b.shouldHandle, error)

\* the pipe invoked by call c throws
breakerPipeFails(c, error) ==
    /\ breaker.class # "none" /\ c \in DOMAIN breaker.calls
    /\ breaker.calls[c].status = "running"
    /\ IF excluded(breaker, error)
       THEN /\ breaker' = [breaker EXCEPT !.calls[c].status = "rejected",
                                           !.calls[c].error = error]
            /\ ctx' = breakerRecord(ctx, "Non-circuit-breaker error", error)
       ELSE /\ breaker' = [countFailure(breaker) EXCEPT !.calls[c].status = "rejected",
                                                         !.calls[c].error = error]
            /\ ctx' = breakerRecord(ctx, "Circuit breaker strategy failure", error)
    /\ UNCHANGED <<aborted, probe, retry>> /\ BuilderUnchanged

\* time passes
breakerTick ==
    /\ breaker.class # "none" /\ breaker.now < MaxTime
    /\ breaker' = [breaker EXCEPT !.now = @ + 1]
    /\ UNCHANGED <<ctx, aborted, probe, retry>> /\ BuilderUnchanged

\* the caller aborts the signal it passes with each call
breakerAbort ==
    /\ breaker.class # "none" /\ ~aborted
    /\ aborted' = TRUE
    /\ UNCHANGED <<ctx, probe, retry, breaker>> /\ BuilderUnchanged

GivenThresholds == {0, 1, 2}
GivenTimeouts == {-1, 2}
BreakerObjects ==
    { CircuitBreakerStrategy(f, t, p) :
        f \in GivenThresholds, t \in GivenTimeouts, p \in Predicates }

BreakerInit ==
    /\ NoBuilder
    /\ probe = Unused
    /\ retry = Unused
    /\ breaker \in { object @@ NoCalls : object \in BreakerObjects }

\* One resilience object, a retry policy or strategy or a circuit breaker,
\* and the execute calls made on it
PolicyInit == RetryInit \/ BreakerInit

PolicyNext ==
    \/ retryExecute
    \/ retryPipeSucceeds
    \/ \E error \in PipeErrors : retryPipeFails(error)
    \/ retryDelayElapsed
    \/ retryAbort
    \/ breakerExecute
    \/ \E c \in 1..MaxCalls : breakerPipeSucceeds(c)
    \/ \E c \in 1..MaxCalls : \E error \in PipeErrors : breakerPipeFails(c, error)
    \/ breakerTick
    \/ breakerAbort

PolicySpec == PolicyInit /\ [][PolicyNext]_vars

\* ----------------------------------------------------- configured steps
\* new PipeConfiguration() with its error-handling fields set
PipeConfiguration(policy, strategy, continueOnFailure) ==
    [ errorHandlingPolicy |-> policy, recoveryStrategy |-> strategy,
      continueOnFailure |-> continueOnFailure ]

\* new FallbackPolicy(fallbackPipe, shouldFallback)
FallbackPolicy(shouldFallback) ==
    [class |-> "FallbackPolicy", shouldFallback |-> shouldFallback]

\* a step of one pipe constructed with a configuration
ConfiguredStep(kind, condition, configuration) ==
    [ kind |-> kind, pipes |-> <<PlainPipe>>, condition |-> condition,
      configuration |-> configuration ]

\* the pipe of step i, and the fallback pipe of its policy
Primary(i) == <<i, 1>>
Fallback(i) == <<i, 2>>

\* a step that asks the strategy first
wrapperOfStrategyFirst(configuration) ==
    IF configuration.recoveryStrategy.class # "none"
    THEN [via |-> "strategy", object |-> configuration.recoveryStrategy]
    ELSE IF configuration.errorHandlingPolicy.class # "none"
    THEN [via |-> "policy", object |-> configuration.errorHandlingPolicy]
    ELSE [via |-> "direct", object |-> Unused]

\* 'if (configuration.errorHandlingPolicy) ... else if
\* (configuration.recoveryStrategy) ... else pipe.handle'
wrapperOf(configuration) ==
    IF configuration.errorHandlingPolicy.class # "none"
    THEN [via |-> "policy", object |-> configuration.errorHandlingPolicy]
    ELSE IF configuration.recoveryStrategy.class # "none"
    THEN [via |-> "strategy", object |-> configuration.recoveryStrategy]
    ELSE [via |-> "direct", object |-> Unused]

\* Where an execute call stands at its next await: the context, the policy
\* or strategy object, the call, how the call settled (or "pending") and
\* the pipes it has just invoked
Awaiting(cx, object, ex, result, error, invoke) ==
    [ ctx |-> cx, object |-> object, exec |-> ex, result |-> result,
      error |-> error, invoke |-> invoke ]

\* the breaker object with the clock it reads, and without
timed(object, now) == [now |-> now] @@ object
untimed(b) == [f \in DOMAIN b \ {"now"} |-> b[f]]

\* FallbackPolicy.execute, up to the await of the primary pipe
fallbackExecute(o, i, cx, ab, ex) ==
    IF ab
    THEN Awaiting(cx, o, ex, "rejected", CancelledError, <<>>)
    ELSE Awaiting(cx, o, [ex EXCEPT !.phase = "primary"], "pending", NoError, <<Primary(i)>>)

\* CircuitBreakerStrategy.execute, up to the await of the pipe
circuitExecute(o, i, cx, ab, ex) ==
    IF ab
    THEN Awaiting(cx, o, ex, "rejected", CancelledError, <<>>)
    ELSE IF o.state = "Open" /\ stillOpen(timed(o, ex.now))
    THEN Awaiting(breakerRecord(cx, "Circuit breaker strategy OPEN", CircuitOpen),
                  o, ex, "rejected", CircuitOpen, <<>>)
    ELSE Awaiting(cx, [o EXCEPT !.state = IF @ = "Open" THEN "HalfOpen" ELSE @],
                  [ex EXCEPT !.phase = "primary"], "pending", NoError, <<Primary(i)>>)

\* one iteration of the retry loop of a call, up to its next await
retryIteration(o, i, cx, ab, ex, attempt) ==
    LET a == retryAttempt(attempt, cx, ab) IN
    IF a.retry.pc = "handle"
    THEN Awaiting(a.ctx, o, [ex EXCEPT !.phase = "primary", !.call = a.retry],
                  "pending", NoError, <<Primary(i)>>)
    ELSE IF a.retry.pc = "delay"
    THEN Awaiting(a.ctx, o, [ex EXCEPT !.phase = "delay", !.call = a.retry],
                  "pending", NoError, <<>>)
    ELSE Awaiting(a.ctx, o, [ex EXCEPT !.call = a.retry], "rejected", a.retry.thrown, <<>>)

\* the try block of a step: the pipe is executed through the policy, else
\* through the strategy, else directly
executePipe(step, i, cx, ab, ex0) ==
    LET w == wrapperOf(step.configuration)
        o == w.object
        ex == [ex0 EXCEPT !.via = w.via,
                          !.calls = Append(@, [step |-> i, via |-> w.via, class |-> o.class])]
    IN IF w.via = "direct"
       THEN Awaiting(cx, o, [ex0 EXCEPT !.via = "direct", !.phase = "primary"],
                     "pending", NoError, <<Primary(i)>>)
       ELSE IF o.class = "FallbackPolicy" THEN fallbackExecute(o, i, cx, ab, ex)
       ELSE IF o.class = "CircuitBreakerStrategy" THEN circuitExecute(o, i, cx, ab, ex)
       ELSE retryIteration(o, i, cx, ab, ex, o @@ NotCalled)

\* the recording done inline by FallbackPolicy.execute
fallbackRecord(cx, errorMessage, message, exception) ==
    [ cx EXCEPT
        !.hasPipeFailure = TRUE,
        !.errors = Append(@, errorMessage),
        !.pipelineErrors = Append(@, [ message |-> message, exception |-> exception,
                                       pipeName |-> NoPipe, attemptNumber |-> 0 ]) ]

\* a policy that runs the fallback whatever the predicate says
fallbackAlways(o, error) == TRUE

\* '!(this.shouldFallback && !this.shouldFallback(typedPrimaryError))'
shouldRunFallback(o, error) ==
    o.shouldFallback = "undefined" \/ Holds(o.shouldFallback, error)

\* the pipe the call awaits has thrown: the catch block of the policy or
\* strategy, up to its next await
pipeThrew(o, i, cx, ex, error) ==
    IF ex.via = "direct"
    THEN Awaiting(cx, o, ex, "rejected", error, <<>>)
    ELSE IF o.class = "FallbackPolicy"
    THEN IF ex.phase = "fallback"
         THEN Awaiting(fallbackRecord(cx,
                         [primary |-> ex.primaryError, fallback |-> error],
                         [ prefix |-> "Both primary and fallback pipes failed",
                           primary |-> ex.primaryError, fallback |-> error ],
                         ex.primaryError),
                       o, ex, "rejected", error, <<>>)
         ELSE IF shouldRunFallback(o, error)
         THEN Awaiting(cx, o, [ex EXCEPT !.phase = "fallback", !.primaryError = error],
                       "pending", NoError, <<Fallback(i)>>)
         ELSE Awaiting(fallbackRecord(cx, error,
                         [ prefix |-> "Primary pipe failed but fallback not executed",
                           error |-> error ],
                         error),
                       o, ex, "rejected", error, <<>>)
    ELSE IF o.class = "CircuitBreakerStrategy"
    THEN IF excluded(o, error)
         THEN Awaiting(breakerRecord(cx, "Non-circuit-breaker error", error),
                       o, ex, "rejected", error, <<>>)
         ELSE Awaiting(breakerRecord(cx, "Circuit breaker strategy failure", error),
                       untimed(countFailure(timed(o, ex.now))), ex, "rejected", error, <<>>)
    ELSE LET c == retryCatch([ex.call EXCEPT !.outcomes = Append(@, error)], cx, error) IN
         IF c.retry.pc = "delay"
         THEN Awaiting(c.ctx, o, [ex EXCEPT !.phase = "delay", !.call = c.retry],
                       "pending", NoError, <<>>)
         ELSE Awaiting(c.ctx, o, [ex EXCEPT !.call = c.retry], "rejected", c.retry.thrown, <<>>)

\* a fallback whose return rethrows the error of the primary pipe
pipeReturnedRethrows(o, i, cx, ex) ==
    IF ex.phase = "fallback"
    THEN Awaiting(handle(cx, Fallback(i)), o, ex, "rejected", ex.primaryError, <<>>)
    ELSE Awaiting(handle(cx, Primary(i)),
                  IF o.class = "CircuitBreakerStrategy" /\ o.state = "HalfOpen"
                  THEN resetCircuit(o) ELSE o,
                  ex, "fulfilled", NoError, <<>>)

\* the pipe the call awaits has returned
pipeReturned(o, i, cx, ex) ==
    Awaiting(handle(cx, IF ex.phase = "fallback" THEN Fallback(i) ELSE Primary(i)),
             IF o.class = "CircuitBreakerStrategy" THEN resetIfHalfOpen(o) ELSE o,
             ex, "fulfilled", NoError, <<>>)

\* a call that works on a copy of the object the configuration holds
heldCopy(sq, i, via, object) == sq

\* The object a call was made on is the one the configuration holds: what
\* the call did to it stays in the step.
held(sq, i, via, object) ==
    IF via = "policy" THEN [sq EXCEPT ![i].configuration.errorHandlingPolicy = object]
    ELSE IF via = "strategy" THEN [sq EXCEPT ![i].configuration.recoveryStrategy = object]
    ELSE sq

\* The step resumes with what its try block awaited: a rejection goes
\* through the catch block of the step, and the builder's loop goes on.
resume(i, a) ==
    /\ steps' = held(steps, i, a.exec.via, a.object)
    /\ handled' = handled \o a.invoke
    /\ IF a.result = "pending"
       THEN /\ exec' = a.exec
            /\ stepPromise' = "pending"
            /\ Continue(a.ctx, "pending", NoError)
       ELSE LET c == IF a.result = "fulfilled" THEN Caught(a.ctx, FALSE)
                     ELSE Catch(steps[i].kind, a.ctx, a.error, Primary(i))
                r == IF c.rethrow THEN "rejected" ELSE "fulfilled"
            IN /\ exec' = [a.exec EXCEPT !.phase = "none", !.via = "none",
                                          !.call = Unused, !.primaryError = NoError]
               /\ stepPromise' = r
               /\ Continue(c.ctx, r, a.error)

ConfiguredFrame ==
    UNCHANGED <<context, source, validator, aborted, call, pipeState, member,
                probe, retry, breaker>>

\* PipelineBuilder.executeInternal: one iteration of the loop over
\* configured steps, up to the first await
beginConfigured ==
    /\ pc = "loop" /\ idx <= Len(steps)
    /\ IF aborted
       THEN /\ ctx' = ctx /\ pc' = "done" /\ idx' = idx
            /\ outcome' = Settled("rejected", CancelledError)
            /\ UNCHANGED <<steps, stepPromise, handled, exec>>
       ELSE LET e == Enter(steps[idx], idx, ctx, aborted) IN
            IF e.invoke = {}
            THEN /\ stepPromise' = e.result
                 /\ Continue(e.ctx, e.result, e.error)
                 /\ UNCHANGED <<steps, handled, exec>>
            ELSE resume(idx, executePipe(steps[idx], idx, e.ctx, aborted, exec))
    /\ ConfiguredFrame

\* the pipe a call awaits returns
pipeReturns ==
    /\ pc = "await" /\ exec.phase \in {"primary", "fallback"}
    /\ resume(idx, pipeReturned(wrapperOf(steps[idx].configuration).object, idx, ctx, exec))
    /\ ConfiguredFrame

\* the errors a pipe can throw: its own, or the cancellation error when it
\* looks at an aborted signal
Throwable(ab) == PipeErrors \cup (IF ab THEN {CancelledError} ELSE {})

\* the pipe a call awaits throws
pipeThrows(error) ==
    /\ pc = "await" /\ exec.phase \in {"primary", "fallback"}
    /\ error \in Throwable(aborted)
    /\ resume(idx, pipeThrew(wrapperOf(steps[idx].configuration).object, idx, ctx, exec, error))
    /\ ConfiguredFrame

\* delayWithCancellation: the timer fires, the loop makes its next attempt
delayElapsed ==
    /\ pc = "await" /\ exec.phase = "delay"
    /\ resume(idx, retryIteration(wrapperOf(steps[idx].configuration).object, idx, ctx,
                                  aborted, exec, delayResolved(exec.call)))
    /\ ConfiguredFrame

\* The caller aborts the signal it passed to flush: a delay in progress is
\* rejected by its 'abort' listener and execute throws that error.
abortFlush ==
    /\ ~aborted /\ pc # "done"
    /\ aborted' = TRUE
    /\ IF pc = "await" /\ exec.phase = "delay"
       THEN resume(idx, Awaiting(ctx, wrapperOf(steps[idx].configuration).object,
                                 [exec EXCEPT !.call = delayAborted(@)],
                                 "rejected", DelayCancelled, <<>>))
       ELSE UNCHANGED <<steps, ctx, pc, idx, stepPromise, handled, outcome, exec>>
    /\ UNCHANGED <<context, source, validator, call, pipeState, member,
                   probe, retry, breaker>>

\* a configuration with both a policy and a strategy, and one that sets
\* only continueOnFailure
BothSet ==
    PipeConfiguration(FallbackPolicy("undefined"),
                      CircuitBreakerStrategy(1, 2, "undefined"), FALSE)
ContinueSet == PipeConfiguration(Unused, Unused, TRUE)

\* the configurations a caller attaches a pipe with
Configurations ==
    { PipeConfiguration(Unused, Unused, FALSE), ContinueSet, BothSet,
      PipeConfiguration(RetryPolicy(2, 10, 50, FALSE, "undefined"), Unused, FALSE) }
    \cup { PipeConfiguration(FallbackPolicy(p), Unused, FALSE) : p \in Predicates }

\* PipelineBuilder.attachPipeWithConfig
attachPipeWithConfig(configuration) ==
    /\ Idle /\ exec.runs = 0 /\ Len(steps) < MaxConfigured
    /\ steps' = Append(steps, ConfiguredStep("seq", "none", configuration))
    /\ UNCHANGED <<context, source, validator, ctx>> /\ Frame

\* PipelineBuilder.attachConditionalPipeWithConfig
attachConditionalPipeWithConfig(c, configuration) ==
    /\ Idle /\ exec.runs = 0 /\ Len(steps) < MaxConfigured
    /\ steps' = Append(steps, ConfiguredStep("cond", c, configuration))
    /\ UNCHANGED <<context, source, validator, ctx>> /\ Frame

\* a subclass of the builder pushes new ParallelStep([pipe], [configuration])
pushParallelStep(configuration) ==
    /\ Idle /\ exec.runs = 0 /\ Len(steps) < MaxConfigured
    /\ steps' = Append(steps, ConfiguredStep("par", "none", configuration))
    /\ UNCHANGED <<context, source, validator, ctx>> /\ Frame

\* new ErrorHandlingOptions()
ErrorHandlingOptions(continueOnFailure, recoveryStrategy) ==
    [ class |-> "ErrorHandlingOptions",
      continueOnFailure |-> continueOnFailure,
      recoveryStrategy |-> recoveryStrategy ]

\* What a builder call that configures the context leaves in the context
\* and what it throws (builderContext: the builder's context field,
\* c: the context object the caller owns)
Configured(c) == [ctx |-> c, error |-> NoError]

\* a builder that writes to the context it is going to be given
withRecoveryStrategyUnattached(builderContext, c, strategy) ==
    Configured([c EXCEPT !.errorHandlingOptions =
                    IF @.class = "none"
                    THEN ErrorHandlingOptions(FALSE, strategy)
                    ELSE [@ EXCEPT !.recoveryStrategy = strategy]])

\* PipelineBuilder.withRecoveryStrategy
withRecoveryStrategyOf(builderContext, c, strategy) ==
    IF builderContext # "undefined"
    THEN Configured([c EXCEPT !.errorHandlingOptions =
                        IF @.class = "none"
                        THEN ErrorHandlingOptions(FALSE, strategy)
                        ELSE [@ EXCEPT !.recoveryStrategy = strategy]])
    ELSE Configured(c)

\* PipelineBuilder.withErrorHandlingOptions
withErrorHandlingOptionsOf(builderContext, c, options) ==
    IF builderContext # "undefined"
    THEN Configured([c EXCEPT !.continueOnFailure = options.continueOnFailure,
                              !.errorHandlingOptions = options])
    ELSE Configured(c)

\* PipelineBuilder.enablePerformanceMetrics
enablePerformanceMetricsOf(builderContext, c, correlationId) ==
    IF builderContext # "undefined"
    THEN Configured([c EXCEPT !.performanceMetrics =
                        [@ EXCEPT !.isSet = TRUE,
                                  !.isEnabled = TRUE,
                                  !.correlationId =
                                      IF correlationId # "undefined"
                                      THEN correlationId ELSE @]])
    ELSE Configured(c)

\* PipelineBuilder.disablePerformanceMetrics
disablePerformanceMetricsOf(builderContext, c) ==
    IF builderContext # "undefined"
    THEN Configured([c EXCEPT !.performanceMetrics =
                        [@ EXCEPT !.isSet = TRUE, !.isEnabled = FALSE]])
    ELSE Configured(c)

\* PipelineBuilder.withRecoveryStrategy, explored for the builders that hold a
\* context without error handling options
withRecoveryStrategy(strategy) ==
    /\ Idle /\ exec.runs = 0
    /\ context # "undefined"
    /\ ctx.errorHandlingOptions.class = "none"
    /\ ctx' = withRecoveryStrategyOf(context, ctx, strategy).ctx
    /\ UNCHANGED <<context, source, steps, validator>> /\ Frame

\* the strategy a caller sets as the default of the whole pipeline
GlobalStrategy == RetryWithBackoffStrategy(2, 10, 50, "undefined")

\* flush has settled and the caller gets ready to call it again on the
\* same builder
again ==
    /\ pc = "done" /\ call = "flush"
    /\ exec.runs + 1 < MaxCalls
    /\ pc' = "idle" /\ call' = "none" /\ outcome' = Pending
    /\ idx' = 0 /\ stepPromise' = "none"
    /\ exec' = [exec EXCEPT !.runs = @ + 1]
    /\ UNCHANGED <<context, source, steps, validator, ctx, aborted, pipeState,
                   member, handled, probe, retry, breaker>>

\* PipelineBuilder.attachContext with a new context, between two flushes
attachNewContext ==
    /\ Idle /\ exec.runs > 0 /\ ctx # NewContext
    /\ context' = "ctx"
    /\ ctx' = NewContext
    /\ UNCHANGED <<source, steps, validator>> /\ Frame

\* time passes
tick ==
    /\ pc \in {"await", "done"} /\ exec.now < MaxTime
    /\ exec' = [exec EXCEPT !.now = @ + 1]
    /\ UNCHANGED <<context, source, steps, validator, ctx, aborted, pc, call, idx,
                   stepPromise, pipeState, member, handled, outcome, probe, retry,
                   breaker>>

\* PipelineBuilder.attachPipeWithCircuitBreakerStrategy
attachPipeWithCircuitBreakerStrategy(failureThreshold, timeout, shouldHandle) ==
    attachPipeWithConfig(
        PipeConfiguration(Unused,
                          CircuitBreakerStrategy(failureThreshold, timeout, shouldHandle),
                          FALSE))

ConfiguredInit ==
    /\ NoBuilder
    /\ probe = Unused /\ retry = Unused /\ breaker = Unused

\* The builders whose pipes are attached with a configuration, flushed once
ConfiguredNext ==
    \/ attachContext
    \/ setSource("value")
    \/ \E configuration \in Configurations : attachPipeWithConfig(configuration)
    \/ attachConditionalPipeWithConfig("noOutput", BothSet)
    \/ \E configuration \in {BothSet, ContinueSet} : pushParallelStep(configuration)
    \/ withRecoveryStrategy(GlobalStrategy)
    \/ setContinueOnFailure
    \/ abortFlush
    \/ flush
    \/ beginConfigured
    \/ pipeReturns
    \/ \E error \in PipeErrors \cup {CancelledError} : pipeThrows(error)
    \/ delayElapsed
    \/ finish

ConfiguredSpec == ConfiguredInit /\ [][ConfiguredNext]_vars

\* The builders whose pipes are attached with their own circuit breaker,
\* flushed again and again with the same context or with a new one
RerunNext ==
    \/ attachContext
    \/ setSource("value")
    \/ \E f \in 1..2 : attachPipeWithCircuitBreakerStrategy(f, 2, "undefined")
    \/ flush
    \/ beginConfigured
    \/ pipeReturns
    \/ pipeThrows(PipeFailure(ThePipe))
    \/ finish
    \/ again
    \/ attachNewContext
    \/ tick

RerunSpec == ConfiguredInit /\ [][RerunNext]_vars

\* ------------------------------------------------------------- settings
\* the strategies, options and correlation ids a caller configures
SettingStrategies == { GlobalStrategy, RetryWithBackoffStrategy(3, 10, 50, "undefined") }
SettingOptions ==
    { ErrorHandlingOptions(continueOnFailure, strategy) :
        continueOnFailure \in BOOLEAN, strategy \in {Unused, GlobalStrategy} }
CorrelationIds == { "undefined", "id" }

\* A builder call that configures the context returns the builder; the
\* caller sees what it threw and whether the builder held a context.
Configure(name, done) ==
    /\ Idle
    /\ ctx' = done.ctx
    /\ probe' = [ class |-> "Setting", name |-> name, held |-> context,
                  error |-> done.error ]
    /\ UNCHANGED <<context, source, steps, validator, aborted, pc, call, idx,
                   stepPromise, pipeState, member, handled, outcome, retry,
                   breaker, exec>>

callWithRecoveryStrategy(strategy) ==
    Configure("withRecoveryStrategy", withRecoveryStrategyOf(context, ctx, strategy))

withErrorHandlingOptions(options) ==
    Configure("withErrorHandlingOptions", withErrorHandlingOptionsOf(context, ctx, options))

enablePerformanceMetrics(correlationId) ==
    Configure("enablePerformanceMetrics",
              enablePerformanceMetricsOf(context, ctx, correlationId))

disablePerformanceMetrics ==
    Configure("disablePerformanceMetrics", disablePerformanceMetricsOf(context, ctx))

\* The builders configured before and after attachContext
SettingsNext ==
    \/ attachContext
    \/ setSource("value")
    \/ setContinueOnFailure
    \/ \E strategy \in SettingStrategies : callWithRecoveryStrategy(strategy)
    \/ \E options \in SettingOptions : withErrorHandlingOptions(options)
    \/ \E correlationId \in CorrelationIds : enablePerformanceMetrics(correlationId)
    \/ disablePerformanceMetrics

SettingsSpec == ConfiguredInit /\ [][SettingsNext]_vars

\* ------------------------------------------------------------ resources
\* the keys and values a caller uses; a value may be 'undefined'
ResourceKeys == {"a", "b"}
ResourceValues == {"undefined", "v", "w"}

\* The built-in Map behind dataRepository: its entries in insertion order
MapHas(m, key) == \E n \in DOMAIN m : m[n].key = key
MapGet(m, key) ==
    IF MapHas(m, key) THEN m[CHOOSE n \in DOMAIN m : m[n].key = key].value ELSE "undefined"
MapSet(m, key, value) ==
    IF MapHas(m, key)
    THEN [n \in DOMAIN m |-> IF m[n].key = key THEN [key |-> key, value |-> value] ELSE m[n]]
    ELSE Append(m, [key |-> key, value |-> value])
MapDelete(m, key) == SelectSeq(m, LAMBDA e : e.key # key)

\* how an operation ended: with a thrown error, or with a returned value
Thrown(m, message) == [map |-> m, threw |-> message, result |-> "undefined"]
Returned(m, result) == [map |-> m, threw |-> "none", result |-> result]

\* PipelineContext.getResource
getResourceOf(m, key) ==
    IF ~MapHas(m, key) THEN Thrown(m, "was not found in the context")
    ELSE Returned(m, MapGet(m, key))

\* PipelineContext.tryGetResource
tryGetResourceOf(m, key, defaultValue) ==
    IF MapHas(m, key) THEN Returned(m, [success |-> TRUE, value |-> MapGet(m, key)])
    ELSE Returned(m, [success |-> FALSE, value |-> defaultValue])

\* an addResource that does not look for the key
addResourceOverwriting(m, key, value) == Returned(MapSet(m, key, value), "undefined")

\* PipelineContext.addResource
addResourceOf(m, key, value) ==
    IF MapHas(m, key) THEN Thrown(m, "already exists in the context")
    ELSE Returned(MapSet(m, key, value), "undefined")

\* PipelineContext.tryAddResource
tryAddResourceOf(m, key, value) ==
    IF MapHas(m, key) THEN Returned(m, FALSE)
    ELSE Returned(MapSet(m, key, value), TRUE)

\* PipelineContext.updateResource
updateResourceOf(m, key, value) ==
    IF ~MapHas(m, key) THEN Thrown(m, "was not found in the context")
    ELSE Returned(MapSet(m, key, value), "undefined")

\* PipelineContext.removeResource
removeResourceOf(m, key) == Returned(MapDelete(m, key), MapHas(m, key))

\* a caller (a pipe's handle) makes one call on the context
Operate(name, key, value, done) ==
    /\ ctx' = [ctx EXCEPT !.dataRepository = done.map]
    /\ probe' = [ class |-> "Operation", name |-> name, key |-> key, value |-> value,
                  threw |-> done.threw, result |-> done.result ]
    /\ UNCHANGED <<context, source, steps, validator, aborted, pc, call, idx, stepPromise,
                   pipeState, member, handled, outcome, retry, breaker, exec>>

getResource(key) ==
    Operate("getResource", key, "undefined", getResourceOf(ctx.dataRepository, key))
tryGetResource(key, defaultValue) ==
    Operate("tryGetResource", key, defaultValue,
            tryGetResourceOf(ctx.dataRepository, key, defaultValue))
addResource(key, value) ==
    Operate("addResource", key, value, addResourceOf(ctx.dataRepository, key, value))
tryAddResource(key, value) ==
    Operate("tryAddResource", key, value, tryAddResourceOf(ctx.dataRepository, key, value))
updateResource(key, value) ==
    Operate("updateResource", key, value, updateResourceOf(ctx.dataRepository, key, value))
removeResource(key) ==
    Operate("removeResource", key, "undefined", removeResourceOf(ctx.dataRepository, key))

\* A context on which the resource operations are called in any order
ResourceNext ==
    \E key \in ResourceKeys, value \in ResourceValues :
        \/ getResource(key)
        \/ tryGetResource(key, value)
        \/ addResource(key, value)
        \/ tryAddResource(key, value)
        \/ updateResource(key, value)
        \/ removeResource(key)

ResourceSpec == ConfiguredInit /\ [][ResourceNext]_vars

\* The builders with nested pipelines, validated by the caller or by flush
ValidationNext ==
    \/ attachContext
    \/ setSource("value")
    \/ \E pipe \in PipeKinds : attachPipe(pipe)
    \/ \E pipes \in SubPipelines : attachSubPipeline(pipes)
    \/ \E results \in ValidatorResults : attachValidator(results)
    \/ setContinueOnFailure
    \/ Abort
    \/ callValidateConfiguration
    \/ \E i \in DOMAIN steps : executeSubPipeline(i)
    \/ flush
    \/ beginStep
    \/ finish
    \/ \E id \in PipeIds : \E ok \in BOOLEAN : settlePipe(id, ok)

ValidationSpec == Init /\ [][ValidationNext]_vars

\* ---------------------------------------------------------- properties
Running == {id \in PipeIds : pipeState[id] = "running"}
IsSettled(id) == pipeState[id] \in {"fulfilled", "rejected"}
AllSequential == \A i \in 1..Len(steps) : steps[i].kind = "seq"
Occurrences(sq, x) == Cardinality({n \in DOMAIN sq : sq[n] = x})
Recorded(id) == Cardinality({n \in DOMAIN ctx.pipelineErrors :
                                ctx.pipelineErrors[n].pipeName = id})

\* C1: flush invokes the pipes in attachment order of their steps, never
\* invokes a pipe of a later step while a pipe of an earlier step is still
\* running, applies the mutations of the output in step order, and leaves N
\* sequential pipes that all succeed with the output mutated by pipe 1, then
\* pipe 2, ..., then pipe N.
C1_SequentialOrdering ==
    call = "flush" =>
        /\ \A m, n \in DOMAIN handled :
              m < n => handled[m][1] <= handled[n][1]
        /\ \A m, n \in DOMAIN handled :
              handled[m][1] < handled[n][1] => IsSettled(handled[m])
        /\ \A m, n \in DOMAIN ctx.output :
              m < n => ctx.output[m][1] <= ctx.output[n][1]
        /\ (outcome.status = "resolved" /\ AllSequential /\ ~ctx.hasPipeFailure)
              => ctx.output = [i \in 1..Len(steps) |-> <<i, 1>>]

C1_Witness ==
    /\ call = "flush" /\ outcome.status = "resolved"
    /\ Len(steps) >= 3 /\ AllSequential
    /\ SubSeq(ctx.output, 1, 3) = << <<1, 1>>, <<2, 1>>, <<3, 1>> >>

\* C2: in a flush, once a step has re-thrown a pipe's failure, flush is
\* rejected with the failure of a pipe of that step that was re-thrown, and
\* no pipe of a later step has been invoked.
C2_FailurePropagates ==
    call = "flush" =>
        \A id \in PipeIds :
            member[id] = "rejected" =>
                /\ outcome.status = "rejected"
                /\ outcome.error = PipeFailure(outcome.error.pipe)
                /\ outcome.error.pipe[1] = id[1]
                /\ member[outcome.error.pipe] = "rejected"
                /\ \A n \in DOMAIN handled : handled[n][1] <= id[1]
                /\ \A later \in PipeIds : later[1] > id[1] => pipeState[later] = "new"

C2_Witness ==
    /\ call = "flush" /\ outcome.status = "rejected"
    /\ outcome.error = PipeFailure(<<1, 1>>)
    /\ Len(steps) >= 2 /\ steps[2].kind = "seq"
    /\ pipeState[<<2, 1>>] = "new"

\* C3 (as claimed): whenever a call is rejected with a pipe's failure, the
\* context has hasPipeFailure set and holds an entry for that failure in
\* errors and in pipelineErrors.
C3_FailureRecordedBeforeRethrow ==
    (outcome.status = "rejected" /\ outcome.error.kind = "PipeFailure") =>
        /\ ctx.hasPipeFailure
        /\ Occurrences(ctx.errors, outcome.error) >= 1
        /\ Recorded(outcome.error.pipe) >= 1

\* C4: with continueOnFailure set, a failed pipe of a Sequential step leaves
\* the step's promise fulfilled and exactly one entry for it in errors and
\* in pipelineErrors with hasPipeFailure set; in a flush the builder has
\* moved on past that step, it rejects only if cancelled, and when it
\* resolves every later Sequential step had its pipe invoked.
C4_ContinueOnFailure ==
    \A id \in PipeIds :
        (ctx.continueOnFailure /\ pipeState[id] = "rejected" /\ steps[id[1]].kind = "seq") =>
            /\ member[id] = "fulfilled"
            /\ ctx.hasPipeFailure
            /\ Occurrences(ctx.errors, PipeFailure(id)) = 1
            /\ Recorded(id) = 1
            /\ call = "step" => outcome.status = "resolved"
            /\ call = "flush" =>
                  /\ idx > id[1]
                  /\ outcome.status = "rejected" => outcome.error = CancelledError
                  /\ outcome.status = "resolved" =>
                        \A k \in (id[1] + 1)..Len(steps) :
                            steps[k].kind = "seq" => IsSettled(<<k, 1>>)

C4_Witness ==
    /\ call = "flush" /\ outcome.status = "resolved" /\ ctx.continueOnFailure
    /\ Len(steps) >= 2 /\ steps[1].kind = "seq" /\ steps[2].kind = "seq"
    /\ pipeState[<<1, 1>>] = "rejected" /\ pipeState[<<2, 1>>] = "fulfilled"
    /\ ctx.output = << <<2, 1>> >>

\* C5 (as claimed): a call that ran a Parallel step settles only after every
\* member pipe it launched has settled, so no pipe is still running once
\* flush (or the step's execute) has resolved or rejected.
C5_ParallelJoinsAll ==
    (call \in {"flush", "step"} /\ outcome.status # "pending") => Running = {}

\* C6: all members of a Parallel step are invoked together; with
\* continueOnFailure set, each failed member is recorded exactly once and
\* its promise is fulfilled, each member that completed has its mutation in
\* the output, the step does not reject, it is not left before every
\* member has settled, and it resolves once they all have.
C6_ParallelIndependent ==
    \A i \in 1..Len(steps) :
        steps[i].kind = "par" =>
            LET ids == {<<i, j>> : j \in 1..Len(steps[i].pipes)} IN
            /\ (\E id \in ids : pipeState[id] # "new")
                  => (\A id \in ids : pipeState[id] # "new")
            /\ ctx.continueOnFailure =>
                  /\ \A id \in ids :
                        /\ pipeState[id] = "rejected" =>
                              /\ member[id] = "fulfilled"
                              /\ ctx.hasPipeFailure
                              /\ Occurrences(ctx.errors, PipeFailure(id)) = 1
                              /\ Recorded(id) = 1
                        /\ pipeState[id] = "fulfilled" =>
                              Occurrences(ctx.output, id) = 1
                  /\ (idx = i /\ outcome.status = "rejected")
                        => outcome.error = CancelledError /\ pc = "done"
                              /\ \A id \in ids : pipeState[id] = "new"
                  /\ (idx = i /\ ids \cap Running # {}) => pc = "await"
                  /\ (idx = i /\ call = "step" /\ \A id \in ids : IsSettled(id))
                        => outcome.status = "resolved"
                  /\ (call = "flush" /\ idx > i) => \A id \in ids : IsSettled(id)

C6_Witness ==
    /\ ctx.continueOnFailure /\ call = "flush" /\ outcome.status = "resolved"
    /\ Len(steps) >= 1 /\ steps[1].kind = "par" /\ Len(steps[1].pipes) = 2
    /\ pipeState[<<1, 1>>] = "rejected" /\ pipeState[<<1, 2>>] = "fulfilled"
    /\ ctx.output = << <<1, 2>> >>

\* the fields of the context other than the builder's performance metrics
Payload(cx) == [cx EXCEPT !.performanceMetrics = NewContext.performanceMetrics]

\* C7: a Conditional step whose predicate evaluates to false is a
\* successful no-op.  In a flush: no pipe is invoked, the context keeps its
\* output and error logs, and the builder proceeds to the next step.  In a
\* direct execute: the call resolves and neither the context nor any pipe
\* changes.  And a flush that resolves has invoked the pipe of every
\* Sequential step, also of those attached after a Conditional step.
C7_ConditionalFalseIsNoOp ==
    /\ [][ ( /\ pc = "loop" /\ idx <= Len(steps) /\ ~aborted
              /\ steps[idx].kind = "cond"
              /\ ~CondEval(steps[idx].condition, ctx)
              /\ <<pc, idx, ctx, pipeState, handled, outcome>>' #
                    <<pc, idx, ctx, pipeState, handled, outcome>> )
            => ( /\ pc' = "loop" /\ idx' = idx + 1
                 /\ outcome' = outcome
                 /\ pipeState' = pipeState /\ handled' = handled
                 /\ Payload(ctx') = Payload(ctx) ) ]_vars
    /\ [][ ( /\ pc = "idle" /\ call' = "step" /\ ~aborted
              /\ steps[idx'].kind = "cond"
              /\ ~CondEval(steps[idx'].condition, ctx) )
            => ( /\ outcome' = Settled("resolved", NoError)
                 /\ pipeState' = pipeState /\ handled' = handled
                 /\ ctx' = ctx ) ]_vars
    /\ []( (call = "flush" /\ outcome.status = "resolved") =>
              \A i \in 1..Len(steps) : steps[i].kind = "seq" => IsSettled(<<i, 1>>) )

C7_Witness ==
    /\ call = "flush" /\ outcome.status = "resolved"
    /\ Len(steps) >= 3
    /\ steps[1].kind = "seq" /\ steps[2] = ConditionalStep(PlainPipe, "noOutput")
    /\ steps[3].kind = "seq"
    /\ pipeState[<<2, 1>>] = "new"
    /\ SubSeq(ctx.output, 1, 2) = << <<1, 1>>, <<3, 1>> >>

\* C8 (as claimed): a Conditional step whose predicate is true behaves as
\* a Sequential step for the same pipe, context and signal: execute leaves
\* the same context and the same promise state before the pipe is awaited,
\* and the catch block leaves the same context and re-throws alike.
C8_ConditionalLikeSequential ==
    \A i \in 1..Len(steps) :
        (pc = "idle" /\ steps[i].kind = "cond" /\ CondEval(steps[i].condition, ctx)) =>
            /\ ConditionalEnter(ctx, aborted, steps[i].condition)
                  = SequentialEnter(ctx, aborted, i)
            /\ ConditionalCatch(ctx, PipeFailure(<<i, 1>>), <<i, 1>>)
                  = SequentialCatch(ctx, PipeFailure(<<i, 1>>), <<i, 1>>)

ConfigurationFailure ==
    \/ context = "undefined"
    \/ source = "undefined"
    \/ Len(steps) = 0
    \/ \E i \in 1..Len(steps) : steps[i].kind = "null"

\* the validator is consulted, and reports at least one error
ValidationFailure ==
    /\ ~ConfigurationFailure /\ source = "value"
    /\ \E n \in DOMAIN validationResults : ~startsWithWarning(validationResults[n])

\* C9: a flush of a builder with no context, no source, no step or a null
\* step, or whose validator reports at least one error, is rejected with
\* the configuration or validation error and no pipe has been invoked.
C9_RejectsBeforeAnyPipe ==
    (call = "flush" /\ (ConfigurationFailure \/ ValidationFailure)) =>
        /\ pc = "done"
        /\ outcome.status = "rejected"
        /\ outcome.error.kind \notin {"PipeFailure", CancelledError.kind}
        /\ ValidationFailure
              => outcome.error = Err("Pipeline configuration validation failed", NoPipe)
        /\ handled = <<>>
        /\ \A id \in PipeIds : pipeState[id] = "new"

C9_Witness ==
    /\ call = "flush" /\ outcome.status = "rejected"
    /\ ValidationFailure /\ ~validator.attached
    /\ Len(steps) >= 2 /\ handled = <<>>

\* C10 (as claimed): validateConfigurationForResult never throws: for every
\* builder state it resolves with an {errors, warnings} result.
C10_ForResultNeverThrows ==
    call = "validateConfigurationForResult" => outcome.status = "resolved"

\* ------------------------------------------- validation and nesting
IsWarning(e) == Len(e) > 0 /\ e[1] = "WARNING:"
WarningTexts(results) ==
    [n \in 1..Len(SelectSeq(results, IsWarning)) |-> Tail(SelectSeq(results, IsWarning)[n])]
ErrorStrings(results) == SelectSeq(results, LAMBDA e : ~IsWarning(e))
AllWarnings(results) == \A n \in DOMAIN results : IsWarning(results[n])
\* flush is called on a builder that passes the precondition checks, so
\* that its validator is consulted
FlushConsultsValidator ==
    /\ pc = "idle" /\ call' = "flush"
    /\ context # "undefined" /\ source = "value" /\ Len(steps) > 0 /\ NullIndexes = {}
ValidationFailed == Err("Pipeline configuration validation failed", NoPipe)

\* C11 (as claimed): whenever every string the validator returns carries
\* the warning prefix, validateConfiguration resolves: flush proceeds to the
\* loop over the steps, validationErrors gains nothing and the warnings are
\* appended to validationWarnings.
C11_WarningsNeverBlock ==
    [][ (FlushConsultsValidator /\ AllWarnings(validationResults)) =>
            /\ pc' = "loop" /\ idx' = 1
            /\ ctx'.validationErrors = ctx.validationErrors
            /\ ctx'.validationWarnings =
                  ctx.validationWarnings \o WarningTexts(validationResults) ]_vars

\* C11 (amended): on a context that holds no validation error yet, a flush
\* whose validator returns only warning-prefixed strings proceeds to the
\* loop over the steps, validationErrors stays empty and the warnings are
\* appended to validationWarnings; a flush whose validator returns a string
\* without the prefix appends it to validationErrors and is rejected with
\* the validation failure before any pipe is invoked.
C11_WarningsDoNotBlock ==
    /\ [][ ( /\ FlushConsultsValidator /\ AllWarnings(validationResults)
             /\ ctx.validationErrors = <<>> ) =>
               /\ pc' = "loop" /\ idx' = 1 /\ outcome'.status = "pending"
               /\ ctx'.validationErrors = <<>>
               /\ ctx'.validationWarnings =
                     ctx.validationWarnings \o WarningTexts(validationResults) ]_vars
    /\ [][ (FlushConsultsValidator /\ ~AllWarnings(validationResults)) =>
               /\ pc' = "done"
               /\ outcome' = Settled("rejected", ValidationFailed)
               /\ ctx'.validationErrors =
                     ctx.validationErrors \o ErrorStrings(validationResults)
               /\ ctx'.validationWarnings =
                     ctx.validationWarnings \o WarningTexts(validationResults)
               /\ handled' = <<>> ]_vars

C11_Witness ==
    /\ call = "flush" /\ outcome.status = "resolved"
    /\ validator.attached /\ validator.results = << <<"WARNING:", "w">> >>
    /\ ctx.validationErrors = <<>>
    /\ ctx.validationWarnings = << <<"w">> >>
    /\ Len(ctx.output) >= 2

RequiredKeys(pipes) == UNION { {p.req[n] : n \in DOMAIN p.req} : p \in SeqRange(pipes) }
ProvidedKeys(pipes) == UNION { {p.prov[n] : n \in DOMAIN p.prov} : p \in SeqRange(pipes) }
Reorderings(n) == { f \in [1..n -> 1..n] : \A a, b \in 1..n : f[a] = f[b] => a = b }

\* C12: the default validator returns exactly one error per distinct
\* required key that no pipe of the list provides and nothing else, whatever
\* the order of the pipes (every reordering of the list yields the same
\* errors), and no error for the empty list.
C12_DefaultValidator ==
    probe.called =>
        LET missing == RequiredKeys(probe.pipes) \ ProvidedKeys(probe.pipes) IN
        /\ SeqRange(probe.result) =
              { <<"Required resource is not provided by any pipe", key>> : key \in missing }
        /\ Len(probe.result) = Cardinality(missing)
        /\ probe.pipes = <<>> => probe.result = <<>>
        /\ \A f \in Reorderings(Len(probe.pipes)) :
              LET reordered == [n \in 1..Len(probe.pipes) |-> probe.pipes[f[n]]] IN
              /\ SeqRange(DefaultValidate(reordered)) = SeqRange(probe.result)
              /\ Len(DefaultValidate(reordered)) = Len(probe.result)

\* a requirement met by a provider attached after the pipe that requires
\* it, one error for a key required twice, none for a provided key
C12_Witness ==
    /\ probe.called
    /\ probe.pipes = << Pipe(<<"x", "y">>, <<>>), Pipe(<<"y">>, <<>>), Pipe(<<>>, <<"x">>) >>
    /\ probe.result = << <<"Required resource is not provided by any pipe", "y">> >>

\* the steps of the builder other than step i
StepsOutside(i) == SubSeq(steps, 1, i - 1) \o SubSeq(steps, i + 1, Len(steps))
\* the pipes nested in step i require keys, all provided by pipes attached
\* to the parent outside step i
ProvidedByParent(i) ==
    /\ RequiredKeys(steps[i].pipes) # {}
    /\ RequiredKeys(steps[i].pipes)
          \subseteq ProvidedKeys(FlatMap(extractPipesFromStep, StepsOutside(i)))

\* C13 (as claimed): when the loop of a flush reaches a sub-pipeline step
\* whose pipes require keys provided only by pipes of the parent, the
\* nested run raises no validation error and invokes the first nested pipe
\* instead of rejecting the flush with a validation failure.
C13_ContractsComposeAcrossNesting ==
    [][ ( /\ call = "flush" /\ pc = "loop" /\ idx <= Len(steps) /\ ~aborted
          /\ steps[idx].kind = "sub" /\ ProvidedByParent(idx)
          /\ pc' # "loop" ) =>
            /\ ctx'.validationErrors = <<>>
            /\ outcome'.error # ValidationFailed
            /\ pipeState'[<<idx, 1>>] = "running" ]_vars

Fulfilled(id) == pipeState[id] = "fulfilled"

\* C14: a sub-pipeline runs on the parent's context with the parent's
\* input: whenever a pipe completes, nested or not, its mutation is applied
\* to the output that holds the mutations of all pipes completed before it,
\* so that in a flush the output is the mutations of the completed pipes in
\* the order they were invoked (parent steps before, nested steps, parent
\* steps after), and the input stays the builder's source.
C14_SubPipelineSharesContext ==
    /\ [][ \A id \in PipeIds :
              (pipeState[id] = "running" /\ pipeState'[id] = "fulfilled") =>
                  ctx'.output = Append(ctx.output, id) ]_vars
    /\ []( call = "flush" =>
              /\ ctx.output = SelectSeq(handled, Fulfilled)
              /\ \A m, n \in DOMAIN handled :
                    m < n => \/ handled[m][1] < handled[n][1]
                             \/ /\ handled[m][1] = handled[n][1]
                                /\ handled[m][2] < handled[n][2]
              /\ handled # <<>> => ctx.input = source )

C14_Witness ==
    /\ call = "flush" /\ outcome.status = "resolved"
    /\ Len(steps) = 3
    /\ steps[1].kind = "seq" /\ steps[2].kind = "sub" /\ steps[3].kind = "seq"
    /\ ctx.output = << <<1, 1>>, <<2, 1>>, <<3, 1>> >>
    /\ ctx.input = "value"

\* ------------------------------------------------- retry, circuit breaker
RetryRun == retry.class # "none"
BreakerRun == breaker.class # "none"
\* the number of times the retry loop has invoked the pipe
Invocations == Len(retry.outcomes) + (IF retry.pc = "handle" THEN 1 ELSE 0)
Failures(sq) == \A a \in DOMAIN sq : sq[a] # NoError

\* C15: with maxAttempts = n >= 1, no retry predicate and no cancellation,
\* the pipe is never invoked more than n times and only the last invocation
\* can have succeeded; execute resolves right after the first success (the
\* k-th invocation, after k - 1 delays) and makes no further attempt; it
\* rejects only after n failed invocations and n - 1 delays, with the error
\* of the last attempt.
C15_RetryAttempts ==
    /\ []( ( /\ RetryRun /\ retry.shouldRetry = "undefined" /\ ~aborted
              /\ retry.given.maxAttempts >= 1 ) =>
              LET n == retry.given.maxAttempts
                  k == Len(retry.outcomes)
              IN /\ Invocations <= n
                 /\ Failures(SubSeq(retry.outcomes, 1, k - 1))
                 /\ retry.pc = "resolved" =>
                       /\ retry.outcomes[k] = NoError
                       /\ Len(retry.delays) = k - 1
                 /\ retry.pc = "rejected" =>
                       /\ k = n /\ Failures(retry.outcomes)
                       /\ retry.thrown = retry.outcomes[n]
                       /\ Len(retry.delays) = n - 1
                 /\ retry.pc = "delay" =>
                       Failures(retry.outcomes) /\ k < n /\ Len(retry.delays) = k
                 /\ retry.pc = "handle" => Len(retry.delays) = k
                 /\ retry.pc = "new" => k = 0 )
    /\ [][ (RetryRun /\ retry.pc \in {"resolved", "rejected"}) => retry' = retry ]_vars

C15_Witness ==
    /\ RetryRun /\ retry.shouldRetry = "undefined" /\ ~aborted
    /\ retry.given.maxAttempts = 3 /\ retry.pc = "rejected"
    /\ Len(retry.outcomes) = 3 /\ Len(retry.delays) = 2
    /\ retry.thrown = retry.outcomes[3]

\* C16: when the predicate rejects the error thrown by the a-th invocation
\* of the pipe, that invocation is the last one, execute is rejected with
\* that error, no delay follows it (a - 1 delays were waited) and the
\* failure is recorded in the context with the attempt number a.
C16_NonRetryableStops ==
    (RetryRun /\ retry.shouldRetry # "undefined") =>
        \A a \in DOMAIN retry.outcomes :
            (retry.outcomes[a] # NoError /\ ~Holds(retry.shouldRetry, retry.outcomes[a])) =>
                /\ a = Len(retry.outcomes) /\ Invocations = a
                /\ retry.pc = "rejected"
                /\ retry.thrown = retry.outcomes[a]
                /\ Len(retry.delays) = a - 1
                /\ ctx.hasPipeFailure
                /\ Len(ctx.pipelineErrors) >= 1
                /\ ctx.pipelineErrors[Len(ctx.pipelineErrors)].exception = retry.outcomes[a]
                /\ ctx.pipelineErrors[Len(ctx.pipelineErrors)].attemptNumber = a

C16_Witness ==
    /\ RetryRun /\ retry.shouldRetry = "retryable" /\ retry.maxAttempts = 3
    /\ retry.outcomes = <<PipeFailure(ThePipe), NonRetryable>>
    /\ retry.pc = "rejected" /\ Len(retry.delays) = 1

\* a configured value, or the given default when it is not positive
Coerced(given, default) == IF given > 0 THEN given ELSE default

\* C17 (as claimed): every non-positive configured value is coerced to the
\* default of its parameter, maxAttempts to 3.
C17_CoercedToDefaults ==
    /\ RetryRun =>
          /\ retry.maxAttempts = Coerced(retry.given.maxAttempts, DefaultMaxAttempts)
          /\ retry.delay = Coerced(retry.given.delay, DefaultDelay)
          /\ retry.maxDelay = Coerced(retry.given.maxDelay, DefaultMaxDelay)
    /\ BreakerRun =>
          /\ breaker.failureThreshold =
                Coerced(breaker.given.failureThreshold, DefaultFailureThreshold)
          /\ breaker.timeout = Coerced(breaker.given.timeout, DefaultTimeout)

\* C17 (amended): a non-positive maxAttempts is coerced to 1, so that the
\* pipe is invoked once and never retried; every other non-positive value
\* is coerced to the default of its parameter (delay 1000, max delay 60000,
\* failureThreshold 5, timeout 60000).
C17_CoercedAtConstruction ==
    /\ RetryRun =>
          /\ retry.maxAttempts = Coerced(retry.given.maxAttempts, 1)
          /\ retry.delay = Coerced(retry.given.delay, DefaultDelay)
          /\ retry.maxDelay = Coerced(retry.given.maxDelay, DefaultMaxDelay)
          /\ retry.given.maxAttempts <= 0 =>
                /\ Invocations <= 1 /\ retry.delays = <<>>
                /\ (retry.pc = "handle" \/ Len(retry.outcomes) = 1)
                      => retry.pc \in {"handle", "resolved", "rejected"}
    /\ BreakerRun =>
          /\ breaker.failureThreshold =
                Coerced(breaker.given.failureThreshold, DefaultFailureThreshold)
          /\ breaker.timeout = Coerced(breaker.given.timeout, DefaultTimeout)

C17_Witness ==
    /\ RetryRun /\ retry.given.maxAttempts = 0 /\ retry.given.delay = 0
    /\ retry.given.maxDelay = -1
    /\ retry.maxAttempts = 1 /\ retry.delay = 1000 /\ retry.maxDelay = 60000
    /\ retry.pc = "rejected" /\ retry.outcomes = <<PipeFailure(ThePipe)>>

Smaller(a, b) == IF a < b THEN a ELSE b

\* C18: the delay waited after the a-th failed attempt is the base delay
\* when exponential backoff is off and min(base delay * 2^(a-1), max delay)
\* when it is on; a RetryWithBackoffStrategy is always exponential; the
\* exponential delays never exceed the max delay and never decrease.
C18_BackoffDelays ==
    RetryRun =>
        /\ retry.class = "RetryWithBackoffStrategy" => retry.useExponentialBackoff
        /\ Len(retry.delays) <= retry.attempts
        /\ \A a \in DOMAIN retry.delays :
              IF retry.useExponentialBackoff
              THEN /\ retry.delays[a] = Smaller(retry.delay * (2 ^ (a - 1)), retry.maxDelay)
                   /\ retry.delays[a] <= retry.maxDelay
                   /\ a > 1 => retry.delays[a - 1] <= retry.delays[a]
              ELSE retry.delays[a] = retry.delay

C18_Witness ==
    /\ RetryRun /\ retry.class = "RetryWithBackoffStrategy"
    /\ retry.delay = 10 /\ retry.maxDelay = 15
    /\ retry.delays = <<10, 15>>

\* a step in which execute is called on the breaker, and the call it adds
Calling == BreakerRun /\ Len(breaker'.calls) = Len(breaker.calls) + 1
NewCall == breaker'.calls[Len(breaker'.calls)]
\* the time since the last counted failure
SinceLastFailure == breaker.now - breaker.lastFailureTime
BreakerFields(b) == <<b.state, b.failureCount, b.lastFailureTime>>

\* C19: the counted failure that brings failureCount to failureThreshold
\* leaves the breaker Open with the window starting at that failure; while
\* it is Open the start of the window never moves back, and every call made
\* less than timeout after it is rejected without invoking the pipe and
\* changes neither state, failureCount nor lastFailureTime.
C19_OpenFailsFast ==
    /\ [][ ( /\ BreakerRun
             /\ breaker'.failureCount > breaker.failureCount
             /\ breaker'.failureCount >= breaker.failureThreshold ) =>
               /\ breaker'.state = "Open"
               /\ breaker'.lastFailureTime = breaker.now ]_vars
    /\ []( (BreakerRun /\ breaker.state = "Open") =>
              /\ breaker.failureCount >= breaker.failureThreshold
              /\ breaker.lastFailureTime \in Epoch..breaker.now )
    /\ [][ (BreakerRun /\ breaker.state = "Open" /\ breaker'.state = "Open") =>
               breaker'.lastFailureTime >= breaker.lastFailureTime ]_vars
    /\ [][ (Calling /\ breaker.state = "Open" /\ SinceLastFailure < breaker.timeout) =>
               /\ NewCall.status = "rejected" /\ ~NewCall.invoked
               /\ BreakerFields(breaker') = BreakerFields(breaker) ]_vars

C19_Witness ==
    /\ BreakerRun /\ ~aborted
    /\ breaker.given.failureThreshold = 2 /\ breaker.failureCount = 2
    /\ breaker.state = "Open"
    /\ Len(breaker.calls) = 3
    /\ breaker.calls[3].saw = "Open" /\ breaker.calls[3].error = CircuitOpen
    /\ ~breaker.calls[3].invoked /\ breaker.calls[3].at > breaker.lastFailureTime

\* the trial invocations: the calls that found the circuit Open and invoked
\* the pipe
Trial(c) == breaker.calls[c].saw = "Open" /\ breaker.calls[c].invoked
Settles(c, status) ==
    /\ c \in DOMAIN breaker.calls
    /\ breaker.calls[c].status = "running"
    /\ breaker'.calls[c].status = status
Counts(error) == breaker.shouldHandle = "undefined" \/ Holds(breaker.shouldHandle, error)

\* C20: the breaker leaves Open only in a call made at least timeout after
\* the last counted failure, a call that is not cancelled, and every such
\* call moves it to HalfOpen and invokes the pipe; when that trial succeeds
\* the breaker is Closed with failureCount 0, and when it fails with a
\* counted error the breaker is Open with lastFailureTime the time of that
\* failure.
C20_LazyTrial ==
    /\ [][ (BreakerRun /\ breaker.state = "Open" /\ breaker'.state # "Open") =>
               /\ Calling /\ ~aborted /\ SinceLastFailure >= breaker.timeout
               /\ breaker'.state = "HalfOpen"
               /\ NewCall.invoked /\ NewCall.status = "running" ]_vars
    /\ [][ ( /\ Calling /\ ~aborted /\ breaker.state = "Open"
             /\ SinceLastFailure >= breaker.timeout ) =>
               /\ breaker'.state = "HalfOpen"
               /\ NewCall.invoked /\ NewCall.status = "running" ]_vars
    /\ [][ BreakerRun =>
             \A c \in 1..MaxCalls :
                 /\ (Settles(c, "resolved") /\ Trial(c)) =>
                       breaker'.state = "Closed" /\ breaker'.failureCount = 0
                 /\ ( /\ Settles(c, "rejected") /\ Trial(c)
                      /\ Counts(breaker'.calls[c].error) ) =>
                       /\ breaker'.state = "Open"
                       /\ breaker'.lastFailureTime = breaker.now ]_vars

\* C21: a call that finds the breaker HalfOpen (a trial has been admitted
\* and the breaker has moved neither to Closed nor to Open since) is not
\* passed through to the pipe.
C21_SingleTrial ==
    BreakerRun =>
        \A c \in DOMAIN breaker.calls :
            ~(breaker.calls[c].saw = "HalfOpen" /\ breaker.calls[c].invoked)

\* C22 (as claimed): when the pipe of a call fails with an error the
\* predicate excludes, the breaker is left with the state the call found
\* and with the failureCount and lastFailureTime it had.
C22_ExcludedLeavesBreakerAsFound ==
    [][ BreakerRun =>
          \A c \in 1..MaxCalls :
              (Settles(c, "rejected") /\ ~Counts(breaker'.calls[c].error)) =>
                  /\ breaker'.state = breaker.calls[c].saw
                  /\ breaker'.failureCount = breaker.failureCount
                  /\ breaker'.lastFailureTime = breaker.lastFailureTime ]_vars

\* C22 (amended): the failure of a pipe with an excluded error is thrown to
\* the caller and changes neither state, failureCount nor lastFailureTime;
\* the only change a call can have made before it is the lazy move from
\* Open to HalfOpen when it was admitted after the timeout, so that a call
\* started from Open leaves the breaker HalfOpen, not Open.
C22_ExcludedBypassesCounting ==
    /\ [][ BreakerRun =>
             \A c \in 1..MaxCalls :
                 (Settles(c, "rejected") /\ ~Counts(breaker'.calls[c].error)) =>
                     /\ BreakerFields(breaker') = BreakerFields(breaker)
                     /\ breaker'.calls[c].error \in PipeErrors ]_vars
    /\ [][ Calling =>
             /\ breaker'.failureCount = breaker.failureCount
             /\ breaker'.lastFailureTime = breaker.lastFailureTime
             /\ \/ breaker'.state = breaker.state
                \/ /\ breaker.state = "Open" /\ breaker'.state = "HalfOpen"
                   /\ SinceLastFailure >= breaker.timeout ]_vars

C22_Witness ==
    /\ BreakerRun /\ breaker.shouldHandle = "retryable"
    /\ Len(breaker.calls) = 2
    /\ breaker.calls[1].status = "rejected"
    /\ breaker.calls[2].saw = "Open" /\ breaker.calls[2].invoked
    /\ breaker.calls[2].status = "rejected" /\ breaker.calls[2].error = NonRetryable
    /\ breaker.state = "HalfOpen" /\ breaker.failureCount = 1

\* -------------------------------------------------------- cancellation
CancelRejected == outcome.status = "rejected" /\ outcome.error = CancelledError

\* C29: when the signal is aborted as the loop of flush reaches a step, flush
\* is rejected with the cancellation error and no pipe is invoked then or
\* later: every pipe invoked belongs to a step before that one.  A step
\* executed on its own with an aborted signal is rejected in the same way
\* without invoking its pipe.
C29_AbortedBeforeStep ==
    /\ [][ (call = "flush" /\ pc = "loop" /\ idx <= Len(steps) /\ aborted) =>
              /\ pc' = "done" /\ CancelRejected'
              /\ handled' = handled ]_vars
    /\ []( (call = "flush" /\ pc = "done" /\ CancelRejected) =>
              \A n \in DOMAIN handled : handled[n][1] < idx )
    /\ [][ (Idle /\ aborted /\ call' = "step") =>
              /\ pc' = "done" /\ CancelRejected'
              /\ handled' = handled ]_vars
    /\ [][ pc = "done" => handled' = handled ]_vars

C29_Witness ==
    /\ call = "flush" /\ pc = "done" /\ CancelRejected
    /\ Len(steps) = 3 /\ idx = 2
    /\ handled = << <<1, 1>> >>

\* ------------------------------------------------------ configured steps
\* the circuit breaker step j was attached with, and its state
BreakerOf(sq, j) == sq[j].configuration.recoveryStrategy
Stepping == pc \in {"loop", "await"} /\ idx \in DOMAIN steps
StepSettles(result) == pc = "await" /\ stepPromise = "pending" /\ stepPromise' = result

\* C23: the state of a circuit breaker lives in the instance the step was
\* attached with.  Nothing but a call made through that instance changes
\* it: not a flush, not its end, not a new flush, not a new context, not a
\* call made through the instance of another step.  A failure of its pipe
\* is counted in the instance (and opens it at the threshold), and a run
\* that finds the instance Open within its timeout fails fast without
\* invoking the pipe.
C23_BreakerOwnedByInstance ==
    [][ /\ \A j \in DOMAIN steps :
              steps'[j] # steps[j] => Stepping /\ j = idx
        /\ StepSettles("rejected") /\ handled' = handled
              => LET b == BreakerOf(steps, idx) IN
                 BreakerFields(BreakerOf(steps', idx))
                     = << IF b.failureCount + 1 >= b.failureThreshold THEN "Open" ELSE b.state,
                          b.failureCount + 1, exec.now >>
        /\ ( /\ pc = "loop" /\ idx \in DOMAIN steps
             /\ BreakerOf(steps, idx).state = "Open"
             /\ exec.now - BreakerOf(steps, idx).lastFailureTime
                    < BreakerOf(steps, idx).timeout )
              => /\ handled' = handled /\ steps' = steps
                 /\ pc' = "done"
                 /\ outcome' = Settled("rejected", CircuitOpen) ]_vars

\* The second flush of a builder of two steps, made with a new context:
\* the first step's pipe ran again, the second step's breaker, opened in
\* the first run, failed fast, and the first step's breaker is as new.
C23_Witness ==
    /\ exec.runs = 1 /\ pc = "done" /\ Len(steps) = 2
    /\ BreakerFields(BreakerOf(steps, 1)) = <<"Closed", 0, 0>>
    /\ BreakerOf(steps, 2).state = "Open"
    /\ BreakerOf(steps, 2).failureCount = 1
    /\ outcome = Settled("rejected", CircuitOpen)
    /\ handled = <<Primary(1), Primary(2), Primary(1)>>
    /\ ctx.output = <<Primary(1)>>

\* a step whose configuration sets the given class of policy
PolicyOf(sq, j) == sq[j].configuration.errorHandlingPolicy
FallbackReturns ==
    /\ pc = "await" /\ exec.phase = "fallback"
    /\ Len(ctx'.output) = Len(ctx.output) + 1
Unrecorded ==
    /\ ctx'.errors = ctx.errors /\ ctx'.pipelineErrors = ctx.pipelineErrors
    /\ ctx'.hasPipeFailure = ctx.hasPipeFailure

\* C24: when the primary pipe of a step attached with a fallback policy has
\* failed and the fallback pipe returns, the context gets the fallback's
\* output and no error record, the step completes, and the builder's loop
\* goes on to the next step; flush never rejects at a step whose fallback
\* returned.
C24_FallbackRecovers ==
    /\ [][ FallbackReturns
             => /\ PolicyOf(steps, idx).class = "FallbackPolicy"
                /\ exec.primaryError \in PipeErrors \cup {CancelledError}
                /\ ctx'.output = Append(ctx.output, Fallback(idx))
                /\ Unrecorded
                /\ stepPromise' = "fulfilled"
                /\ pc' = "loop" /\ idx' = idx + 1 /\ outcome' = Pending ]_vars
    /\ [](pc = "done" /\ outcome.status = "rejected" /\ idx \in DOMAIN steps
             => Fallback(idx) \notin SeqRange(ctx.output))

\* A flush of two steps has completed: the primary pipe of the first step
\* failed, its fallback ran, and the second step ran after it.
C24_Witness ==
    /\ pc = "done" /\ outcome = Settled("resolved", NoError)
    /\ Len(steps) = 2 /\ PolicyOf(steps, 1).class = "FallbackPolicy"
    /\ handled = <<Primary(1), Fallback(1), Primary(2)>>
    /\ ctx.output = <<Fallback(1), Primary(2)>>
    /\ ~ctx.hasPipeFailure /\ ~aborted

\* the primary pipe of a call made through a fallback policy throws
PrimaryThrows ==
    /\ pc = "await" /\ exec.phase = "primary" /\ exec.via = "policy"
    /\ PolicyOf(steps, idx).class = "FallbackPolicy"
    /\ exec'.phase # "primary" /\ Len(ctx'.output) = Len(ctx.output)
Accepts(o, error) == o.shouldFallback = "undefined" \/ error.kind = "PipeFailure"
FallbackThrows ==
    /\ pc = "await" /\ exec.phase = "fallback"
    /\ exec'.phase # "fallback" /\ Len(ctx'.output) = Len(ctx.output)
LastRecord(cx) == cx.pipelineErrors[Len(cx.pipelineErrors)]
\* the error the policy threw to the step: the step of kind "seq" or "par"
\* that does not swallow it rejects with it
Rethrown(error) ==
    ~ctx.continueOnFailure
        => /\ stepPromise' = "rejected" /\ pc' = "done"
           /\ outcome' = Settled("rejected", error)

\* C25: the fallback pipe is invoked when, and only when, the primary pipe
\* has thrown an error the should-fallback predicate accepts (or there is
\* no predicate).  When the predicate rejects the error the policy throws
\* the primary's error and the fallback is not invoked.  When the fallback
\* throws too, the policy records one message that combines both errors
\* and throws the fallback's error.
C25_FallbackIffAccepted ==
    /\ [][ /\ \A j \in DOMAIN steps :
                 Occurrences(handled', Fallback(j)) > Occurrences(handled, Fallback(j))
                     => /\ PrimaryThrows /\ j = idx
                        /\ handled' = Append(handled, Fallback(j))
                        /\ Accepts(PolicyOf(steps, j), exec'.primaryError)
                        /\ Unrecorded
           /\ PrimaryThrows
                 => \E error \in Throwable(aborted) :
                       IF Accepts(PolicyOf(steps, idx), error)
                       THEN /\ handled' = Append(handled, Fallback(idx))
                            /\ exec'.phase = "fallback" /\ exec'.primaryError = error
                            /\ pc' = "await"
                       ELSE /\ handled' = handled
                            /\ LastRecord(ctx').exception = error
                            /\ Rethrown(error)
           /\ FallbackThrows
                 => \E error \in Throwable(aborted) :
                       /\ handled' = handled
                       /\ Len(ctx'.errors) >= Len(ctx.errors) + 1
                       /\ ctx'.errors[Len(ctx.errors) + 1]
                              = [primary |-> exec.primaryError, fallback |-> error]
                       /\ \A n \in DOMAIN ctx'.errors :
                              n > Len(ctx.errors) + 1 => ctx'.errors[n] = error
                       /\ Rethrown(error) ]_vars

\* Both pipes of a step have thrown, the primary an error the predicate
\* accepts and the fallback another one: flush rejected with the fallback's
\* error and the context holds the combined message.
C25_Witness ==
    /\ pc = "done" /\ Len(steps) >= 1
    /\ PolicyOf(steps, 1).class = "FallbackPolicy"
    /\ PolicyOf(steps, 1).shouldFallback = "retryable"
    /\ handled = <<Primary(1), Fallback(1)>>
    /\ outcome = Settled("rejected", NonRetryable)
    /\ Len(ctx.errors) >= 1
    /\ ctx.errors[1] = [primary |-> PipeFailure(ThePipe), fallback |-> NonRetryable]

\* the steps whose configuration sets both a policy and a strategy, and the
\* calls step j made to a policy or a strategy
SetsBoth(sq) ==
    { j \in DOMAIN sq : /\ PolicyOf(sq, j).class # "none"
                        /\ BreakerOf(sq, j).class # "none" }
CallsOf(j) == { n \in DOMAIN exec.calls : exec.calls[n].step = j }

\* C26: a step of any type whose configuration sets both a policy and a
\* strategy executes its pipe through the policy only: every call the step
\* makes is a call of the policy, the strategy object is never called (it
\* stays as it was constructed), and the pipe is invoked by the policy's
\* call, never by the step itself.
C26_PolicyOverStrategy ==
    \A j \in SetsBoth(steps) :
        /\ \A n \in CallsOf(j) :
              /\ exec.calls[n].via = "policy"
              /\ exec.calls[n].class = PolicyOf(steps, j).class
        /\ BreakerOf(steps, j) = BothSet.recoveryStrategy
        /\ pc = "await" /\ idx = j => exec.via = "policy"
        /\ Occurrences(handled, Primary(j)) = Cardinality(CallsOf(j))

\* A conditional step and a parallel step that set both have executed: the
\* pipe of each failed and the fallback of its policy ran.
C26_Witness ==
    /\ pc = "done" /\ outcome = Settled("resolved", NoError)
    /\ SetsBoth(steps) = {1, 2}
    /\ steps[1].kind = "cond" /\ steps[2].kind = "par"
    /\ handled = <<Primary(1), Fallback(1), Primary(2), Fallback(2)>>
    /\ Len(exec.calls) = 2

\* flush rejected at step idx with an error of the step's pipe
RejectedAtStep ==
    /\ pc = "done" /\ call = "flush" /\ idx \in DOMAIN steps
    /\ outcome.status = "rejected" /\ outcome.error \in PipeErrors
Unwrapped(j) == wrapperOf(steps[j].configuration).via = "direct"
GlobalSet == ctx.errorHandlingOptions.class # "none"

\* C27: the strategy set with withRecoveryStrategy is the default of every
\* pipe attached without a policy or strategy of its own: under a global
\* retry strategy of two attempts, flush rejects at such a pipe only after
\* the pipe was invoked twice.
C27_GlobalStrategyIsDefault ==
    RejectedAtStep /\ GlobalSet /\ Unwrapped(idx)
        => Occurrences(handled, Primary(idx))
               = ctx.errorHandlingOptions.recoveryStrategy.maxAttempts

\* C28: the failure of a pipe whose configuration sets continueOnFailure
\* is swallowed by its step whatever context.continueOnFailure says: flush
\* never rejects at such a step with the error of its pipe.
C28_ConfigurationOverrides ==
    RejectedAtStep => ~steps[idx].configuration.continueOnFailure

\* the errors that report a cancellation, and the records of the context
\* that hold one: the abort was detected where the record was made
Cancellations == {CancelledError, DelayCancelled}
CancellationDetected ==
    \E n \in DOMAIN ctx.pipelineErrors : ctx.pipelineErrors[n].exception \in Cancellations

\* C30: a cancellation detected during a flush is never swallowed: the
\* flush rejects with a cancellation error, whatever continueOnFailure is
\* and wherever the abort was detected.
C30_CancellationNeverSwallowed ==
    pc = "done" /\ call = "flush" /\ CancellationDetected
        => outcome.status = "rejected" /\ outcome.error \in Cancellations

\* -------------------------------------------- cancellation, recorded
\* the context holds the record of a cancellation
CancellationRecorded(cx) ==
    /\ cx.hasPipeFailure
    /\ \E n \in DOMAIN cx.pipelineErrors : cx.pipelineErrors[n].exception = CancelledError
    /\ Len(cx.errors) > 0

\* C31: an execution that failed because the signal was found aborted at
\* the start of a step has recorded the cancellation in the context, like
\* any pipe failure, before throwing it.
C31_CancellationRecorded ==
    pc = "done" /\ call \in {"flush", "step"} /\ CancelRejected
        => CancellationRecorded(ctx)

\* an attempt of the retry loop begins (execute is called, or the delay
\* before the attempt has elapsed) with the signal already aborted
AttemptWhenAborted ==
    /\ RetryRun /\ aborted /\ retry.pc \in {"new", "delay"}
    /\ retry' # retry

\* C32: the signal is checked before each attempt of a retry policy or
\* strategy, and an aborted signal makes execute fail at once: the pipe is
\* not invoked, no delay is started, the cancellation is recorded once and
\* thrown.
C32_AbortedAttemptFailsAtOnce ==
    [][ AttemptWhenAborted
          => /\ retry'.pc = "rejected" /\ retry'.thrown = CancelledError
             /\ retry'.outcomes = retry.outcomes
             /\ retry'.delays = retry.delays
             /\ Len(ctx'.pipelineErrors) = Len(ctx.pipelineErrors) + 1 ]_vars

\* the signal is aborted while the retry loop waits between two attempts
AbortedInDelay == RetryRun /\ retry.pc = "delay" /\ ~aborted /\ aborted'

\* C33: a delay between two attempts is interrupted by the signal: on the
\* abort the timer is cleared and execute rejects with the error of the
\* cancelled delay, without recording anything more and without invoking
\* the pipe again; a timer is armed only while the loop waits.
C33_DelayInterruptible ==
    /\ [][ AbortedInDelay
             => /\ retry'.pc = "rejected" /\ retry'.thrown = DelayCancelled
                /\ retry'.timer = "cleared"
                /\ retry'.outcomes = retry.outcomes /\ retry'.attempts = retry.attempts
                /\ ctx' = ctx ]_vars
    /\ [][ RetryRun /\ retry.thrown = DelayCancelled => retry' = retry ]_vars
    /\ [](RetryRun => (retry.timer = "armed" <=> retry.pc = "delay"))

\* The first of three attempts failed and the signal was aborted during the
\* delay that followed.
C33_Witness ==
    /\ RetryRun /\ aborted /\ retry.maxAttempts = 3
    /\ retry.pc = "rejected" /\ retry.thrown = DelayCancelled
    /\ retry.timer = "cleared"
    /\ Len(retry.outcomes) = 1 /\ Len(retry.delays) = 1

\* ------------------------------------------------------------ resources
\* the reference map of a store: per key, <<>> when absent, else <<value>>
Ref(m) == [key \in ResourceKeys |-> IF MapHas(m, key) THEN <<MapGet(m, key)>> ELSE <<>>]
Put(ref, key, value) == [ref EXCEPT ![key] = <<value>>]
UniqueKeys(m) == \A a, b \in DOMAIN m : m[a].key = m[b].key => a = b

\* C34: the store has unique keys, and each operation acts on it as on a
\* reference map: addResource fails on a present key and keeps the value;
\* getResource and updateResource fail on an absent key and create nothing;
\* tryAddResource stores and returns true iff the key was absent;
\* tryGetResource never fails and reports success iff the key is present;
\* removeResource returns true iff the key was present and leaves it absent.
C34_ResourceMap ==
    /\ [](UniqueKeys(ctx.dataRepository))
    /\ [][ probe'.class = "Operation" =>
           LET before == Ref(ctx.dataRepository)
               after == Ref(ctx'.dataRepository)
               op == probe'
               present == before[op.key] # <<>>
           IN CASE op.name = "addResource" ->
                     IF present THEN op.threw # "none" /\ after = before
                     ELSE op.threw = "none" /\ after = Put(before, op.key, op.value)
                [] op.name = "getResource" ->
                     /\ after = before
                     /\ IF present THEN op.threw = "none" /\ <<op.result>> = before[op.key]
                        ELSE op.threw # "none"
                [] op.name = "updateResource" ->
                     IF present THEN op.threw = "none" /\ after = Put(before, op.key, op.value)
                     ELSE op.threw # "none" /\ after = before
                [] op.name = "tryAddResource" ->
                     /\ op.threw = "none" /\ op.result = ~present
                     /\ after = IF present THEN before ELSE Put(before, op.key, op.value)
                [] op.name = "tryGetResource" ->
                     /\ op.threw = "none" /\ after = before
                     /\ op.result.success = present
                     /\ present => <<op.result.value>> = before[op.key]
                [] op.name = "removeResource" ->
                     /\ op.threw = "none" /\ op.result = present
                     /\ after = [before EXCEPT ![op.key] = <<>>] ]_vars

\* Key "a" was added, then addResource("a", "w") failed and kept the value.
C34_Witness ==
    /\ probe.class = "Operation" /\ probe.name = "addResource"
    /\ probe.key = "a" /\ probe.value = "w" /\ probe.threw # "none"
    /\ Ref(ctx.dataRepository) = [key \in ResourceKeys |-> IF key = "a" THEN <<"v">> ELSE <<>>]

\* ------------------------------------------------- validation, in order
\* the first precondition of validation the builder does not meet (0: none)
FirstUnmet ==
    IF context = "undefined" THEN 1
    ELSE IF source # "value" THEN 2
    ELSE IF Len(steps) = 0 THEN 3
    ELSE IF \E i \in DOMAIN steps : steps[i].kind = "null" THEN 4
    ELSE 0
PreconditionMessages ==
    << "Context must be attached, call attachContext()",
       "Source must be set, call setSource()",
       "At least one step must be attached to the pipeline",
       "Pipeline step is null and cannot be executed" >>

\* C35: validation checks that a context is attached, then that a source
\* is set, then that a step is attached, then that no step is null, and
\* fails at the first unmet one with that precondition's message, before
\* the validator is consulted and before any pipe is invoked; the four
\* messages differ.
C35_PreconditionsInOrder ==
    /\ \A a, b \in DOMAIN PreconditionMessages :
          a # b => PreconditionMessages[a] # PreconditionMessages[b]
    /\ pc = "done" /\ call = "flush" =>
          IF FirstUnmet = 0
          THEN \A a \in DOMAIN PreconditionMessages :
                  outcome.error.kind # PreconditionMessages[a]
          ELSE /\ outcome.status = "rejected"
               /\ outcome.error.kind = PreconditionMessages[FirstUnmet]
               /\ handled = <<>>
               /\ ~ctx.isConfigurationValidated /\ ctx.validationErrors = <<>>
    /\ pc = "done" /\ call = "validateConfigurationForResult" /\ FirstUnmet \in 1..3 =>
          /\ outcome.status = "rejected"
          /\ outcome.error.kind = PreconditionMessages[FirstUnmet]

\* A flush of a builder with a context but neither source nor steps has
\* reported the missing source.
C35_Witness ==
    /\ pc = "done" /\ call = "flush" /\ source = "undefined" /\ Len(steps) = 0
    /\ context # "undefined"
    /\ outcome = Settled("rejected", Err("Source must be set, call setSource()", NoPipe))

\* ------------------------------------------ circuit breaker, its fields
\* calls made through the breaker that have not settled yet
InFlight == { c \in DOMAIN breaker.calls : breaker.calls[c].status = "running" }

\* C36: in every state of a circuit breaker, whatever the interleaving of
\* the calls made through it: Closed implies failureCount below the
\* threshold; Open or HalfOpen implies failureCount at or above the
\* threshold and lastFailureTime set.
C36_BreakerFieldsAgree ==
    BreakerRun =>
        /\ breaker.state \in {"Closed", "Open", "HalfOpen"}
        /\ breaker.state = "Closed" => breaker.failureCount < breaker.failureThreshold
        /\ breaker.state \in {"Open", "HalfOpen"} =>
              /\ breaker.failureCount >= breaker.failureThreshold
              /\ breaker.lastFailureTime # 0

\* Two calls were admitted together after the timeout of an open breaker:
\* one has succeeded and reset the breaker, the other is still in flight.
C36_Witness ==
    /\ BreakerRun /\ breaker.failureThreshold = 1
    /\ BreakerFields(breaker) = <<"Closed", 0, 0>>
    /\ Len(breaker.calls) = 3
    /\ \E c \in InFlight : breaker.calls[c].saw \in {"Open", "HalfOpen"}

\* C37: a call that succeeds while the breaker is not HalfOpen leaves
\* state, failureCount and lastFailureTime as they are; failureCount goes
\* down only when a call succeeds in HalfOpen, and then to 0; so the
\* failures that open the circuit need not be consecutive.
C37_SuccessKeepsCount ==
    [][ BreakerRun =>
          /\ \A c \in DOMAIN breaker.calls :
                Settles(c, "resolved") /\ breaker.state # "HalfOpen"
                    => BreakerFields(breaker') = BreakerFields(breaker)
          /\ breaker'.failureCount < breaker.failureCount
                => /\ breaker.state = "HalfOpen"
                   /\ \E c \in DOMAIN breaker.calls : Settles(c, "resolved")
                   /\ BreakerFields(breaker') = <<"Closed", 0, 0>>
          /\ breaker'.failureCount > breaker.failureCount
                => /\ breaker'.failureCount = breaker.failureCount + 1
                   /\ \E c \in DOMAIN breaker.calls : Settles(c, "rejected")
                   /\ breaker'.failureCount >= breaker.failureThreshold
                         => breaker'.state = "Open" ]_vars

\* A breaker of threshold 2 and three calls admitted while it was Closed,
\* each at a later tick than the one before: the first failed,
\* the second succeeded, the third failed and opened the circuit.
C37_Witness ==
    /\ BreakerRun /\ breaker.failureThreshold = 2
    /\ Len(breaker.calls) = 3
    /\ \A c \in 1..3 : breaker.calls[c].saw = "Closed" /\ breaker.calls[c].invoked
    /\ breaker.calls[1].status = "rejected"
    /\ breaker.calls[2].status = "resolved" /\ breaker.calls[2].at > breaker.calls[1].at
    /\ breaker.calls[3].status = "rejected" /\ breaker.calls[3].at > breaker.calls[2].at
    /\ breaker.state = "Open" /\ breaker.failureCount = 2

\* s is the beginning of t
StartsWith(t, s) == Len(s) <= Len(t) /\ SubSeq(t, 1, Len(s)) = s

\* the builder as it is now passes validateConfiguration on a context that
\* has never been validated
ValidOnNewContext(b) == validateConfigurationOf(b, NewContext).error = NoError

\* C38: validateConfiguration appends to validationErrors and
\* validationWarnings and never clears them (each list only grows at its
\* end), and it decides on the accumulated list: while the context holds a
\* validation error, a validateConfiguration that passes the precondition
\* checks throws the validation failure, a flush is rejected before any pipe
\* is invoked, with the validation failure if it passes the precondition
\* checks, and a sub-pipeline executed on that context is rejected by its
\* nested flush before any of its pipes is invoked, whether or not the
\* pipeline is valid by now.
C38_ErrorsAccumulate ==
    /\ [][ /\ StartsWith(ctx'.validationErrors, ctx.validationErrors)
           /\ StartsWith(ctx'.validationWarnings, ctx.validationWarnings) ]_vars
    /\ []( ( /\ ctx.validationErrors # <<>>
             /\ context # "undefined" /\ source = "value"
             /\ Len(steps) > 0 /\ NullIndexes = {} )
           => validateConfiguration.error = ValidationFailed )
    /\ [][ (pc = "idle" /\ call' = "flush" /\ ctx.validationErrors # <<>>) =>
               /\ pc' = "done" /\ outcome'.status = "rejected"
               /\ FlushConsultsValidator => outcome'.error = ValidationFailed
               /\ handled' = handled
               /\ \A id \in PipeIds : pipeState'[id] = pipeState[id] ]_vars
    /\ [][ (pc = "idle" /\ call' = "step" /\ ctx.validationErrors # <<>>) =>
               /\ pc' = "done" /\ outcome'.status = "rejected"
               /\ ~aborted => outcome'.error = ValidationFailed
               /\ handled' = handled
               /\ \A id \in PipeIds : pipeState'[id] = pipeState[id] ]_vars

\* A builder whose validation failed when its caller validated it, that was
\* completed afterwards so that it would pass on a new context, and whose
\* flush was rejected with the validation failure all the same.
C38_Witness ==
    /\ call = "flush" /\ outcome = Settled("rejected", ValidationFailed)
    /\ ValidOnNewContext(Builder)
    /\ Len(ctx.validationErrors) = 1
    /\ handled = <<>>

SettingNames ==
    { "withRecoveryStrategy", "withErrorHandlingOptions",
      "enablePerformanceMetrics", "disablePerformanceMetrics" }

\* the step is a call of the named builder method that the caller's record
\* of the last call shows, made on a builder whose context field is as given
Configures(name, builderContext) ==
    /\ context = builderContext
    /\ probe' # probe /\ probe'.class = "Setting" /\ probe'.name = name

\* what the named call would leave in the context c of a builder that holds it
AfterAttach(name, c) ==
    IF name = "withRecoveryStrategy"
    THEN { withRecoveryStrategyOf("ctx", c, s).ctx : s \in SettingStrategies }
    ELSE IF name = "withErrorHandlingOptions"
    THEN { withErrorHandlingOptionsOf("ctx", c, o).ctx : o \in SettingOptions }
    ELSE IF name = "enablePerformanceMetrics"
    THEN { enablePerformanceMetricsOf("ctx", c, i).ctx : i \in CorrelationIds }
    ELSE { disablePerformanceMetricsOf("ctx", c).ctx }

\* C39: a call of withRecoveryStrategy, withErrorHandlingOptions,
\* enablePerformanceMetrics or disablePerformanceMetrics on a builder that
\* holds no context leaves the context object and the builder as they were
\* and throws nothing; attachContext stores the context without writing to
\* it, so a context attached after such calls carries no error handling
\* options and no performance metrics, whereas the same call made after
\* attachContext writes the setting into the context: the call and
\* attachContext do not commute.
C39_SettingsBeforeAttachLost ==
    /\ [][ \A name \in SettingNames :
             Configures(name, "undefined") =>
                /\ ctx' = ctx
                /\ probe'.error = NoError /\ probe'.held = "undefined"
                /\ UNCHANGED <<context, source, steps, validator, pc, outcome>> ]_vars
    /\ [][ (context = "undefined" /\ context' = "ctx") => ctx' = ctx ]_vars
    /\ []( context = "undefined" =>
             /\ ctx.errorHandlingOptions = Unused
             /\ ~ctx.performanceMetrics.isSet
             /\ \A name \in SettingNames : ctx \notin AfterAttach(name, ctx) )
    /\ [][ \A name \in SettingNames :
             Configures(name, "ctx") =>
                /\ ctx' \in AfterAttach(name, ctx)
                /\ probe'.error = NoError
                /\ name = "withRecoveryStrategy" =>
                      ctx'.errorHandlingOptions.recoveryStrategy \in SettingStrategies
                /\ name = "withErrorHandlingOptions" =>
                      /\ ctx'.errorHandlingOptions \in SettingOptions
                      /\ ctx'.continueOnFailure =
                            ctx'.errorHandlingOptions.continueOnFailure
                /\ name = "enablePerformanceMetrics" =>
                      ctx'.performanceMetrics.isSet /\ ctx'.performanceMetrics.isEnabled
                /\ name = "disablePerformanceMetrics" =>
                      ctx'.performanceMetrics.isSet /\ ~ctx'.performanceMetrics.isEnabled ]_vars

\* The last call the caller made was enablePerformanceMetrics on a builder
\* without a context; the context attached since has no performance metrics
\* and no error handling options.
C39_Witness ==
    /\ context = "ctx"
    /\ probe.class = "Setting" /\ probe.name = "enablePerformanceMetrics"
    /\ probe.held = "undefined" /\ probe.error = NoError
    /\ ~ctx.performanceMetrics.isSet
    /\ ctx.errorHandlingOptions = Unused

\* flush, once called, settles
FlushSettles == (call = "flush") ~> (call = "flush" /\ outcome.status # "pending")

\* flush stays pending for as long as a pipe it invoked has not settled
PendingWhileRunning == [](call = "flush" /\ Running # {} => outcome.status = "pending")

\* C40 (as claimed): when every pipe that is invoked settles, flush settles;
\* and flush stays pending for as long as one of the pipes it invoked has not
\* settled, so that a member pipe that never settles keeps it pending for
\* ever.
C40_SettlesWithItsPipes == FlushSettles /\ PendingWhileRunning

=============================================================================
